---------------------------- MODULE Spec2Model ----------------------------
(***************************************************************************)
(* Drone-MOB: the per-drone mission agent (src/drone/core/mission.py), its *)
(* state machine (src/drone/core/state_machine.py), the probabilistic      *)
(* search manager (src/drone/core/ai/prob_search.py) and the Coordinator   *)
(* (src/coordinator/coordinator.py): its operator relay, its fleet state   *)
(* and its search tasking loop; the MediaServer                            *)
(* (src/coordinator/media_server.py); the bus client                       *)
(* (src/v_0.2/scout_drone/core/comms.py) and the satellite relay of the    *)
(* hub (src/hub/satellite_relay.py).                                       *)
(*                                                                         *)
(* Specifications.  Spec and FairSpec run one agent against the bus;       *)
(* FleetSpec runs the scout and one other agent through a MOB mission;     *)
(* GridSpec applies the methods of the search manager in every order;      *)
(* CoordSpec runs the handlers and the search loop of the Coordinator;     *)
(* MediaSpec runs the Coordinator's overwatch tasking with the streams of  *)
(* the MediaServer; BusSpec runs the hub's bus client and its relay        *)
(* through disconnects and reconnects; GossipSpec runs two scouts that     *)
(* share their map observations on fleet/map/update.                       *)
(*                                                                         *)
(* Execution model.  Every agent is one asyncio process with two tasks,    *)
(* the bus listener "L" (_p2p_event_listener) and the health monitor "H"   *)
(* (_health_monitor), started by asyncio.gather in MissionController.run.  *)
(* A trigger is awaited by the task that fires it, and the `after`         *)
(* callback of a transition is awaited inside that trigger, so a whole     *)
(* chain of state behaviours runs on the call stack of the firing task.    *)
(* The machine is an AsyncMachine built with the library defaults          *)
(* (state_machine.py:60-65): not queued, invalid triggers raise            *)
(* MachineError, the `after` callbacks of a transition run before the      *)
(* machine-wide after_state_change callback, the first transition whose    *)
(* source and conditions match is taken, and a transition executed by one  *)
(* task cancels the callbacks that another task is running for the same    *)
(* model (CancelledError at the await where that task is suspended).       *)
(*                                                                         *)
(* A task runs without interruption between two awaits that really         *)
(* suspend (controller commands, camera scans, sleeps, an empty queue).    *)
(* The pc labels ending in "_wait", "recv" and "sleep" are those awaits;   *)
(* every other label is a task that holds the event loop.                  *)
(*                                                                         *)
(* Names are resolved as the call sites intend: the callbacks named in the *)
(* transition table are the methods of that name, drone.hold,              *)
(* drone.return_to_home, telemetry.is_home and delivery_behavior.run are   *)
(* calls on the flight controller interface and the delivery behaviour,    *)
(* and MissionPhase.ROLE_EMERGency_EYES (state_machine.py:112) is          *)
(* ROLE_EMERGENCY_EYES.                                                    *)
(***************************************************************************)
EXTENDS Integers, Sequences, FiniteSets, TLC

(* ------------------------------ bounds -------------------------------- *)
MaxMsgs == 2        \* bus messages published to the agents by other parties
MaxManual == 1      \* times the local operator takes the sticks
MaxFailures == 1    \* controller commands and connects that fail
MaxOperator == 2    \* operator answers to one pending sighting
MaxTargets == 1     \* distinct fleet/event/target_found messages
max_search_iterations == 2  \* config.mission.max_search_iterations
grid_size == 2      \* config.prob_search.grid_size: cells per side
MaxCalls == 3       \* calls made on one ProbabilisticSearchManager
MaxStreams == 2     \* stream tasks the MediaServer creates
MaxChurn == 2       \* times the hub's bus client loses its connection
MaxBus == 2         \* messages other clients publish while the relay runs
MaxObs == 2         \* observations the scouts share on fleet/map/update

(* ----------------------------- vocabulary ----------------------------- *)
Drones == {"scout_1", "payload_1", "utility_1"}

Role(d) ==
  CASE d = "scout_1" -> "scout"
    [] d = "payload_1" -> "payload"
    [] d = "utility_1" -> "utility"

Tasks == {"L", "H"}

Other(t) == IF t = "L" THEN "H" ELSE "L"

MissionPhase ==
  {"IDLE", "PREFLIGHT", "TAKEOFF",
   "ROLE_SEARCH_PRIMARY", "ROLE_SEARCH_DELIVER", "ROLE_SEARCH_ASSIST",
   "ROLE_EMERGENCY_EYES", "ROLE_EMERGENCY_STANDBY", "ROLE_EMERGENCY_ASSIST",
   "ROLE_UTILITY_TASK",
   "TARGET_PENDING_CONFIRMATION", "TARGET_CONFIRMED", "DELIVERING",
   "RETURNING", "LANDING", "COMPLETED", "EMERGENCY",
   "LOCAL_OPERATOR_CONTROL"}

Positions == {"P1", "P2"}

\* the position carried by the target_found message with identity m
TargetPos(m) == IF m = 1 THEN "P1" ELSE "P2"

\* battery percentages that fall on the different sides of the thresholds
BatteryLevels == {100, 25, 10}

high_battery_threshold == 80
min_battery_preflight == 50
min_battery_emergency == 20
min_battery_patrol_rtl == 30

\* ProbSearchConfig: the defaults.  A probability p is written as a
\* percentage where the code multiplies by it, a speed in cm/s.
search_area_size_m == 2000
search_altitude == 100
r_max == 500
h_ref == 50
miss_probability_pct == 10
suppression_pct == 10
drift_x_cm_s == 50
drift_y_cm_s == 20
evolve_interval_s == 5

(* ------------------------ the transition table ------------------------ *)
Tr(trg, src, dst, aft, conds) ==
  [trigger |-> trg, source |-> src, dest |-> dst, after |-> aft,
   conditions |-> conds]

\* MissionStateMachine.__init__: the add_transition calls, in order
Transitions ==
  << Tr("start_mission", {"IDLE", "ROLE_UTILITY_TASK"}, "PREFLIGHT",
        "run_preflight", {}),
     Tr("start_standby_mission", {"IDLE", "ROLE_UTILITY_TASK"}, "PREFLIGHT",
        "run_preflight", {}),
     Tr("start_patrol_mission", {"IDLE"}, "PREFLIGHT", "run_preflight", {}),
     Tr("start_overwatch_mission", {"IDLE", "ROLE_UTILITY_TASK"}, "PREFLIGHT",
        "run_preflight", {}),
     Tr("preflight_success", {"PREFLIGHT"}, "TAKEOFF", "run_takeoff", {}),
     Tr("takeoff_success", {"TAKEOFF"}, "ROLE_SEARCH_PRIMARY",
        "run_search_step", {"is_mob_search", "is_scout"}),
     Tr("takeoff_success", {"TAKEOFF"}, "ROLE_SEARCH_ASSIST",
        "run_search_step", {"is_mob_search", "is_utility"}),
     Tr("takeoff_success", {"TAKEOFF"}, "ROLE_EMERGENCY_STANDBY",
        "run_standby", {"is_standby_mission"}),
     Tr("takeoff_success", {"TAKEOFF"}, "ROLE_UTILITY_TASK",
        "run_patrol", {"is_patrol_mission"}),
     Tr("takeoff_success", {"TAKEOFF"}, "ROLE_EMERGENCY_EYES",
        "run_overwatch", {"is_overwatch_mission"}),
     Tr("takeoff_success", {"TAKEOFF"}, "ROLE_EMERGENCY_ASSIST",
        "run_overwatch", {"is_overwatch_mission", "is_utility"}),
     Tr("target_sighted", {"ROLE_SEARCH_PRIMARY", "ROLE_SEARCH_ASSIST"},
        "TARGET_PENDING_CONFIRMATION", "request_operator_confirmation", {}),
     Tr("reject_target", {"TARGET_PENDING_CONFIRMATION"},
        "ROLE_SEARCH_PRIMARY", "handle_rejection", {"is_scout"}),
     Tr("reject_target", {"TARGET_PENDING_CONFIRMATION"},
        "ROLE_SEARCH_ASSIST", "handle_rejection", {"is_utility"}),
     Tr("confirm_target", {"TARGET_PENDING_CONFIRMATION"},
        "TARGET_CONFIRMED", "request_delivery", {}),
     Tr("start_delivery_mission", {"IDLE", "ROLE_EMERGENCY_STANDBY"},
        "PREFLIGHT", "run_preflight", {}),
     Tr("takeoff_success", {"TAKEOFF"}, "DELIVERING",
        "run_payload_delivery", {"is_delivery_mission"}),
     Tr("search_complete_negative",
        {"ROLE_SEARCH_PRIMARY", "ROLE_SEARCH_ASSIST"}, "RETURNING",
        "run_return_to_home", {}),
     Tr("delivery_request_sent", {"TARGET_CONFIRMED"}, "RETURNING",
        "run_return_to_home", {}),
     Tr("delivery_complete", {"DELIVERING"}, "RETURNING",
        "run_return_to_home", {}),
     Tr("patrol_complete", {"ROLE_UTILITY_TASK"}, "RETURNING",
        "run_return_to_home", {}),
     Tr("patrol_battery_low", {"ROLE_UTILITY_TASK"}, "RETURNING",
        "run_return_to_home", {}),
     Tr("overwatch_complete",
        {"ROLE_EMERGENCY_EYES", "ROLE_EMERGENCY_ASSIST"}, "RETURNING",
        "run_return_to_home", {}),
     Tr("arrived_home", {"RETURNING"}, "LANDING", "run_land", {}),
     Tr("land_complete", {"LANDING"}, "COMPLETED", "log_mission_summary", {}),
     Tr("trigger_emergency", MissionPhase, "EMERGENCY",
        "run_emergency_land", {}),
     Tr("local_operator_takeover", MissionPhase, "LOCAL_OPERATOR_CONTROL",
        "run_local_operator_takeover", {}),
     Tr("local_operator_release", {"LOCAL_OPERATOR_CONTROL"}, "RETURNING",
        "run_local_operator_release", {}),
     Tr("mission_finished", {"COMPLETED"}, "IDLE", "end", {}),
     Tr("reset_from_emergency", {"EMERGENCY"}, "IDLE", "end", {}) >>

\* the guard helpers _is_scout .. _is_delivery_mission
Cond(c, rl, mt) ==
  CASE c = "is_scout" -> rl = "scout"
    [] c = "is_payload" -> rl = "payload"
    [] c = "is_utility" -> rl = "utility"
    [] c = "is_mob_search" -> mt = "MOB_SEARCH"
    [] c = "is_standby_mission" -> mt = "STANDBY"
    [] c = "is_patrol_mission" -> mt = "PATROL"
    [] c = "is_overwatch_mission" -> mt = "OVERWATCH"
    [] c = "is_delivery_mission" -> mt = "PAYLOAD_DELIVERY"

\* the transitions of a trigger that are declared from phase ph
Declared(trg, ph) ==
  {i \in DOMAIN Transitions :
     Transitions[i].trigger = trg /\ ph \in Transitions[i].source}

\* the transitions among them whose conditions hold
Passing(trg, ph, rl, mt) ==
  {i \in Declared(trg, ph) :
     \A c \in Transitions[i].conditions : Cond(c, rl, mt)}

\* AsyncEvent._process: the first transition that executes, 0 if none does
Match(trg, ph, rl, mt) ==
  IF Passing(trg, ph, rl, mt) = {} THEN 0
  ELSE CHOOSE i \in Passing(trg, ph, rl, mt) :
         \A j \in Passing(trg, ph, rl, mt) : i <= j

(* ------------------------------- state -------------------------------- *)
VARIABLES
  agents,           \* the drones whose agent process is running
  phase,            \* MissionController.state, per drone
  current_mission_type,
  target_position,  \* "none", "area" (configured search area) or a position
  target,           \* self.target: position of the sighted detection
  inbox,            \* MqttClient.incoming_messages, per agent
  task,             \* per drone and task: pc, stack, ret
  tick,             \* locals of the running health tick
  vehicle,          \* the flight controller, as drone.telemetry polls it:
                    \* vehicle mode and battery
  translog,         \* history: transitions executed, in order, since the
                    \* agent last had no trigger in progress
  statelog,         \* history: phases published on fleet/state/<id> since
                    \* then
  lastCmd,          \* history: last flight command and the phase at issue
  tf_published,     \* history: number of fleet/event/target_found published
  confirms,         \* history: own CONFIRMs received while pending
  rejections,       \* history: triggers that executed no transition
  serving,          \* history: mid of the target_found being served
  iteration,        \* SearchBehavior.iteration
  deliveries,       \* history: entries into DELIVERING per target_found mid
  injected,         \* bus messages published by other parties so far
  manual_count,     \* times the local operator took the sticks so far
  failures,         \* controller commands and connects that failed so far
  relayed,          \* history: per drone, the operator answers the
                    \* Coordinator relayed for the pending sighting
  probability_grid, \* ProbabilisticSearchManager.probability_grid: the
                    \* weight of every cell <<row, col>>
  grid_scale,       \* the probability of a cell is its weight / grid_scale
  area,             \* ProbabilisticSearchManager.area: the configured centre
  calls,            \* history: the last two calls made on the manager
  ncalls,           \* calls made on the manager so far
  fleet,            \* Coordinator.fleet[id].mission_phase
  prob_search_loop_task,  \* Coordinator.prob_search_loop_task
  tasked_from,      \* history: the phase the Coordinator knew of the drone
                    \* when it started the search loop for it
  goto_published,   \* history: GOTO_WAYPOINT commands published per drone
  detached_tasks,   \* the search loop tasks that prob_search_loop_task no
                    \* longer refers to and that have not ended yet
  commands,         \* history: the commands the Coordinator published on
                    \* drone/command/<id>
  last_mob,         \* history: what the last trigger_mob_event published
                    \* and broadcast
  reported,         \* history: the phase each drone reported last
  active_streams,   \* MediaServer.active_streams: per drone the number of
                    \* its stream task, 0 without an entry
  stream_tasks,     \* the _process_stream tasks that have not ended
  nstreams,         \* stream tasks created so far
  overwatch_tasking, \* history: per drone "tasked" since it was tasked
                    \* with overwatch, "ended" once it reported IDLE after
                    \* that
  is_connected,     \* MqttClient.is_connected of the hub's client
  broker_subs,      \* the topic filters the broker holds for that client
  subscribed,       \* history: the filters the client subscribed to
  incoming_messages, \* MqttClient.incoming_messages of the hub's client
  relay_pc,         \* SatelliteRelay.run: the next filter to subscribe to,
                    \* or "listen"
  handled,          \* history: the messages listen() yielded to the relay,
                    \* with is_connected at that time
  uplinked,         \* history: the messages the relay's client sent
  churn,            \* disconnections of the hub's client so far
  bus_count,        \* messages other clients published so far
  listener_at,      \* per scout of a two-scout fleet: "listen" when its
                    \* bus listener waits in listen(), else the state
                    \* behaviour that runs on the listener task
  map_inbox,        \* per scout: the fleet/map/update messages queued in
                    \* MqttClient.incoming_messages
  applied,          \* history: per scout and observation, the update_map
                    \* calls made for it on the scout's own grid
  shared            \* history: the scouts that published the observations
                    \* 1, 2, ... on fleet/map/update, in order

agent_vars == <<phase, current_mission_type, target_position, target, inbox,
                task, tick, iteration>>
env_vars == <<agents, vehicle, injected, manual_count>>
hist_vars == <<translog, statelog, lastCmd, tf_published, confirms,
               rejections, serving, deliveries>>
grid_vars == <<probability_grid, grid_scale, area, calls, ncalls>>
loop_vars == <<prob_search_loop_task, detached_tasks, tasked_from,
               goto_published, commands, last_mob>>
media_vars == <<active_streams, stream_tasks, nstreams, overwatch_tasking>>
coord_vars == <<fleet, reported, loop_vars, media_vars>>
\* the bus client of the hub and its satellite relay: no agent and no
\* Coordinator handler touches them
bus_vars == <<is_connected, broker_subs, subscribed, incoming_messages,
              relay_pc, handled, uplinked, churn, bus_count>>
\* two scouts sharing observations: only the actions of GossipSpec touch
\* them
gossip_vars == <<listener_at, map_inbox, applied, shared>>
hub_vars == <<grid_vars, coord_vars, bus_vars, gossip_vars>>
drone_vars == <<agent_vars, env_vars, failures, relayed, hist_vars,
                bus_vars, gossip_vars>>
vars == <<drone_vars, hub_vars>>

Msg(tp, ty, id, pos, m) ==
  [topic |-> tp, type |-> ty, drone_id |-> id, position |-> pos, mid |-> m]

\* MissionController.run: the topics an agent subscribes to
Subscriptions ==
  {"mission/start", "fleet/event/confirmation", "fleet/event/target_found",
   "fleet/map/update"}

\* the broker: a message reaches the queue of every subscribed agent
Deliver(box, m) ==
  [d \in Drones |->
     IF d \in agents /\ m.topic \in Subscriptions
     THEN Append(box[d], m) ELSE box[d]]

IdleTask(t) ==
  [pc |-> IF t = "L" THEN "recv" ELSE "sleep", stack |-> <<>>,
   ret |-> IF t = "L" THEN "recv" ELSE "sleep"]

\* the awaits at which a task is suspended
WaitLabels ==
  {"recv", "sleep", "preflight_wait", "takeoff_wait", "search_goto_wait",
   "search_scan_wait", "search_sleep", "standby_goto_wait", "standby_sleep",
   "patrol_scan_wait", "patrol_sleep", "overwatch_wait",
   "deliver_goto_wait", "deliver_hover_wait", "rtl_wait", "land_wait",
   "eland_wait", "hold_wait"}

Suspended(d, t) == task[d][t].pc \in WaitLabels

\* no task of the agent holds the event loop
LoopFree(d) == \A t \in Tasks : Suspended(d, t)

\* the task is inside a trigger (registered in AsyncMachine.async_tasks)
InTrigger(tk) == tk.stack # <<>>

(* ------------------- the probabilistic search manager ----------------- *)
\* Probabilities are exact fractions: the probability of cell <<row, col>>
\* is probability_grid[<<row, col>>] / grid_scale, with integer weights.
\* Horizontal coordinates of cell centres and waypoints are kept in units of
\* 1 / Fine metres, so that they stay integers for every grid_size.
Fine == 2 * grid_size

Rows == 0..(grid_size - 1)

Cells == Rows \X Rows

\* np.unravel_index: flat index k of the row-major order to <<row, col>>
Unravel(k) == <<k \div grid_size, k % grid_size>>

\* initialize_map: the uniform prior (1 / grid_size^2 in every cell)
Uniform == [c \in Cells |-> 1]

RECURSIVE SumTo(_, _)
\* np.sum over the cells of flat index 0..k
SumTo(g, k) == IF k < 0 THEN 0 ELSE g[Unravel(k)] + SumTo(g, k - 1)

Sum(g) == SumTo(g, grid_size * grid_size - 1)

RECURSIVE GCD(_, _)
GCD(a, b) == IF b = 0 THEN a ELSE GCD(b, a % b)

RECURSIVE GCDTo(_, _)
GCDTo(g, k) == IF k < 0 THEN 0 ELSE GCD(g[Unravel(k)], GCDTo(g, k - 1))

\* the fraction weights / scale in lowest terms (the same probabilities)
Reduced(g, sc) ==
  LET f == GCD(GCDTo(g, grid_size * grid_size - 1), sc)
  IN [grid |-> [c \in Cells |-> g[c] \div f], scale |-> sc \div f]

\* the grid with the cells of set S multiplied by pct / 100
Scaled(g, sc, S, pct) ==
  Reduced([c \in Cells |-> IF c \in S THEN g[c] * pct ELSE g[c] * 100],
          sc * 100)

\* np.argmax: the first cell, in row-major order, that holds the maximum
ArgMax(g) ==
  Unravel(CHOOSE k \in 0..(grid_size * grid_size - 1) :
            /\ \A j \in 0..(grid_size * grid_size - 1) :
                 g[Unravel(j)] <= g[Unravel(k)]
            /\ \A j \in 0..(k - 1) : g[Unravel(j)] < g[Unravel(k)])

\* _create_cell_centers, np.linspace: centre i of a side, in 1/Fine m
\* relative to the area centre
Coord(i) == search_area_size_m * (1 - grid_size + 2 * i)

\* cell_centers_x with the matrix indexing of meshgrid(indexing='ij'): the
\* x coordinate varies with the row
cell_centers_x_ij(row, col) == Coord(row)

\* np.meshgrid(coords, coords), default 'xy' indexing: X[row, col] is
\* coords[col] and Y[row, col] is coords[row]
cell_centers_x(row, col) == Coord(col)

cell_centers_y(row, col) == Coord(row)

\* Suppress as a boost: the visited cell is multiplied by 10
Suppress_boost(g, sc, rc) ==
  Reduced([c \in Cells |-> IF c = rc THEN g[c] * 10 ELSE g[c]], sc)

\* get_next_search_waypoint, line 78: probability_grid[row, col] *= 0.1
Suppress(g, sc, rc) == Scaled(g, sc, {rc}, suppression_pct)

\* get_next_search_waypoint: the waypoint returned
NextWaypoint(g, a) ==
  LET rc == ArgMax(g)
  IN [x |-> cell_centers_x(rc[1], rc[2]) + Fine * a.x,
      y |-> cell_centers_y(rc[1], rc[2]) + Fine * a.y,
      z |-> search_altitude]

\* update_map, steps 1 and 2: the cells whose centre is closer to the drone
\* than the sensor radius r_max * h / (h + h_ref); the centres are taken
\* relative to the origin, not to the area centre.  Squared distances are
\* compared, in (1/Fine m)^2, the radius as the fraction num / den.
InRadius(pos, alt) ==
  LET f == GCD(alt, alt + h_ref)
      num == Fine * r_max * (alt \div f)
      den == (alt + h_ref) \div f
  IN {c \in Cells :
        LET dx == cell_centers_x(c[1], c[2]) - Fine * pos.x
            dy == cell_centers_y(c[1], c[2]) - Fine * pos.y
        IN (dx * dx + dy * dy) <= ((num * num - 1) \div (den * den))}

\* update_map: a detection is only logged; otherwise the cells in the sensor
\* radius are multiplied by miss_probability and the grid is normalized, or
\* re-initialized when its sum is 0
UpdateMap(g, sc, pos, alt, has_detection) ==
  IF has_detection THEN [grid |-> g, scale |-> sc]
  ELSE LET u == Scaled(g, sc, InRadius(pos, alt), miss_probability_pct)
           total_prob == Sum(u.grid)
       IN IF total_prob > 0 THEN Reduced(u.grid, total_prob)
          ELSE [grid |-> Uniform, scale |-> grid_size * grid_size]

\* int(): truncation towards zero of the fraction n / d, d > 0
Trunc(n, d) == IF n >= 0 THEN n \div d ELSE -((-n) \div d)

\* evolve_map: the drift in cells, and np.roll(shift=(dy, dx), axis=(0, 1))
EvolveMap(g, dt) ==
  LET dx == Trunc(drift_x_cm_s * dt * grid_size, 100 * search_area_size_m)
      dy == Trunc(drift_y_cm_s * dt * grid_size, 100 * search_area_size_m)
  IN [c \in Cells |->
        g[<<(c[1] - dy) % grid_size, (c[2] - dx) % grid_size>>]]

\* np.clip
Clip(v, lo, hi) == IF v < lo THEN lo ELSE IF v > hi THEN hi ELSE v

\* confirm_target_at: the <<row, col>> computed for a position
LockCell(pos, a) ==
  LET col == Trunc((2 * (pos.x - a.x) + search_area_size_m) * grid_size,
                   2 * search_area_size_m)
      row == Trunc((2 * (pos.y - a.y) + search_area_size_m) * grid_size,
                   2 * search_area_size_m)
  IN <<Clip(row, 0, grid_size - 1), Clip(col, 0, grid_size - 1)>>

\* confirm_target_at: the grid is zeroed and the cell set to 1.0
Locked(rc) == [c \in Cells |-> IF c = rc THEN 1 ELSE 0]

\* the entry of the call history
Call(op, pos, det, wp) ==
  [op |-> op, pos |-> pos, has_detection |-> det, waypoint |-> wp, dt |-> 0]

Origin == [x |-> 0, y |-> 0, z |-> 0]

\* Coordinator.prob_search_loop_task is None
NoTask == [scout_id |-> "none", pc |-> "none"]

\* no trigger_mob_event was handled yet
NoMob == [started |-> {}, broadcast |-> {}]

\* a command published on drone/command/<d>
Cmd(d, c) == [drone |-> d, command |-> c]

(* ---------------------- the bus and the relay ------------------------- *)
\* A topic is the sequence of its tokens, "/" included, cut so that the
\* prefixes the relay tests are prefixes of token sequences:
\* "mission/started" is <<"mission", "/", "start", "ed">>.  Topics are
\* written without the base topic, which publish and subscribe add and
\* listen removes.
\* SatelliteRelay.uplink_topics, in the order of the list
uplink_topics ==
  << <<"mission", "/", "start">>,
     <<"fleet", "/", "event", "/", "+">>,
     <<"fleet", "/", "state", "/", "+">> >>

satcom_topic_prefix == <<"global_hq", "/", "uplink">>

\* the levels of a topic: its tokens between the "/"
RECURSIVE Levels(_)
Levels(tp) ==
  IF \A i \in DOMAIN tp : tp[i] # "/" THEN <<tp>>
  ELSE LET k == CHOOSE i \in DOMAIN tp :
                  tp[i] = "/" /\ \A j \in 1..(i - 1) : tp[j] # "/"
       IN <<SubSeq(tp, 1, k - 1)>> \o Levels(SubSeq(tp, k + 1, Len(tp)))

\* the broker: a filter matches a topic level by level, "+" matches one
\* level
FilterMatches(f, tp) ==
  LET lf == Levels(f)
      lt == Levels(tp)
  IN /\ Len(lf) = Len(lt)
     /\ \A i \in DOMAIN lf : lf[i] = <<"+">> \/ lf[i] = lt[i]

\* t.replace("/+", "")
RECURSIVE StripPlus(_)
StripPlus(t) ==
  IF Len(t) < 2 THEN t
  ELSE IF t[1] = "/" /\ t[2] = "+" THEN StripPlus(SubSeq(t, 3, Len(t)))
  ELSE <<t[1]>> \o StripPlus(Tail(t))

\* SatelliteRelay.run: the test of a received topic,
\* topic.startswith(t.replace("/+", "")) for some t
is_uplinkable(tp) ==
  \E i \in DOMAIN uplink_topics :
    LET pre == StripPlus(uplink_topics[i])
    IN Len(tp) >= Len(pre) /\ SubSeq(tp, 1, Len(pre)) = pre

\* an uplink that keeps the topic: the message is republished where it was
\* received
UplinkTopic_same(tp) == tp

\* SatelliteRelay.run: f"{self.satcom_topic_prefix}/{topic}"
UplinkTopic(tp) == satcom_topic_prefix \o <<"/">> \o tp

\* A payload on the wire is a text: the value it encodes and the way it is
\* written ("dumps" is the text json.dumps writes, "spaced" another text
\* of the same value); Malformed is a text that is not JSON.
Malformed == [value |-> "none", form |-> "malformed"]

json_dumps(v) == [value |-> v, form |-> "dumps"]

json_loads(w) == w.value

\* The broker hands a message to the hub's client when the client is
\* connected and one of its filters matches.  MqttClient._on_message: the
\* payload is decoded and the pair queued; a payload that is not JSON is
\* dropped.
on_message(q, m) ==
  IF is_connected /\ \E f \in broker_subs : FilterMatches(f, m.topic)
  THEN IF m.payload = Malformed THEN q
       ELSE Append(q, [topic |-> m.topic, payload |-> json_loads(m.payload)])
  ELSE q

\* hub_main: the client is connected before the relay is created
BusInit ==
  /\ is_connected = TRUE
  /\ broker_subs = {}
  /\ subscribed = {}
  /\ incoming_messages = <<>>
  /\ relay_pc = 1
  /\ handled = <<>>
  /\ uplinked = <<>>
  /\ churn = 0
  /\ bus_count = 0

(* -------------------- scouts sharing observations --------------------- *)
\* a fleet configured with two drones of role "scout": each constructs a
\* ProbabilisticSearchManager of its own (MissionController.__init__)
Scouts == {"scout_1", "scout_2"}

\* both agents run, their listeners wait in listen(), nothing was shared
GossipInit ==
  /\ listener_at = [s \in Scouts |-> "listen"]
  /\ map_inbox = [s \in Scouts |-> <<>>]
  /\ applied = [s \in Scouts |-> [k \in 1..MaxObs |-> 0]]
  /\ shared = <<>>

\* MissionController.__init__, for every drone of the fleet
AgentInit ==
  /\ phase = [d \in Drones |-> "IDLE"]
  /\ current_mission_type = [d \in Drones |-> "IDLE"]
  /\ target_position = [d \in Drones |-> "none"]
  /\ target = [d \in Drones |-> "none"]
  /\ task = [d \in Drones |-> [t \in Tasks |-> IdleTask(t)]]
  /\ tick = [d \in Drones |->
               [is_manual |-> FALSE, is_in_local_control |-> FALSE]]
  /\ vehicle = [d \in Drones |-> [state |-> "DISARMED", battery |-> 100]]
  /\ iteration = [d \in Drones |-> 0]
  /\ translog = [d \in Drones |-> <<>>]
  /\ statelog = [d \in Drones |-> <<>>]
  /\ lastCmd = [d \in Drones |-> [cmd |-> "none", phase |-> "IDLE"]]
  /\ tf_published = [d \in Drones |-> 0]
  /\ confirms = [d \in Drones |-> 0]
  /\ rejections = [d \in Drones |-> 0]
  /\ serving = [d \in Drones |-> 0]
  /\ deliveries = [d \in Drones |-> [m \in 0..MaxTargets |-> 0]]
  /\ relayed = [d \in Drones |-> <<>>]

\* Coordinator.__init__: no drone has connected, no search loop was started
CoordInit ==
  /\ fleet = [d \in Drones |-> "UNKNOWN"]
  /\ prob_search_loop_task = NoTask
  /\ tasked_from = "none"
  /\ goto_published = [d \in Drones |-> 0]
  /\ detached_tasks = {}
  /\ commands = {}
  /\ last_mob = NoMob
  /\ reported = [d \in Drones |-> "UNKNOWN"]
  /\ active_streams = [d \in Drones |-> 0]
  /\ stream_tasks = {}
  /\ nstreams = 0
  /\ overwatch_tasking = [d \in Drones |-> "untasked"]

\* ProbabilisticSearchManager.__init__ around the area centre a
GridInit(a) ==
  /\ probability_grid = Uniform
  /\ grid_scale = grid_size * grid_size
  /\ area = a
  /\ calls = <<>>
  /\ ncalls = 0

\* one agent process runs; the Coordinator and its search manager are as
\* constructed
Init ==
  /\ agents \in {{d} : d \in Drones}
  /\ AgentInit
  /\ inbox = [d \in Drones |-> <<>>]
  /\ injected = 0
  /\ manual_count = 0
  /\ failures = 0
  /\ CoordInit
  /\ BusInit
  /\ GossipInit
  /\ GridInit([x |-> 0, y |-> 0, z |-> 0])

(* ----------------------- the machine: triggers ------------------------ *)
\* AsyncTransition.execute for the transition that Match selects: the state
\* changes, the callbacks another task runs for this model are cancelled
\* (that task resumes where its outermost trigger returns), and the `after`
\* callback starts on the stack of task t; the destination waits on the
\* stack for the after_state_change publication.  rl is where task t goes
\* on when its outermost trigger returns.
Fire(d, t, trg, mt, rl) ==
  LET tr == Transitions[Match(trg, phase[d], Role(d), mt)]
      me == task[d][t]
      ot == task[d][Other(t)]
      fresh == ~InTrigger(me) /\ ~InTrigger(ot)
  IN /\ phase' = [phase EXCEPT ![d] = tr.dest]
     /\ translog' = [translog EXCEPT
                       ![d] = Append(IF fresh THEN <<>> ELSE @,
                                     [trigger |-> trg, source |-> phase[d],
                                      dest |-> tr.dest])]
     /\ statelog' = [statelog EXCEPT ![d] = IF fresh THEN <<>> ELSE @]
     /\ task' = [task EXCEPT ![d] =
          [x \in Tasks |->
             IF x = t
             THEN [pc |-> tr.after, stack |-> Append(me.stack, tr.dest),
                   ret |-> IF InTrigger(me) THEN me.ret ELSE rl]
             ELSE IF InTrigger(ot)
                  THEN [pc |-> ot.ret, stack |-> <<>>, ret |-> ot.ret]
                  ELSE ot]]
     /\ relayed' = IF phase[d] = "TARGET_PENDING_CONFIRMATION"
                   THEN [relayed EXCEPT ![d] = <<>>] ELSE relayed
     /\ deliveries' = IF tr.dest = "DELIVERING"
                      THEN [deliveries EXCEPT ![d][serving[d]] = @ + 1]
                      ELSE deliveries

\* a trigger fired inside the try block of a state callback: a MachineError
\* (no transition declared from the phase) reaches `except Exception`, which
\* fires trigger_emergency; a trigger whose conditions all fail returns
\* False and the callback runs to its end
FireInCallback(d, t, trg) ==
  LET mt == current_mission_type[d]
  IN IF Match(trg, phase[d], Role(d), mt) # 0
     THEN /\ Fire(d, t, trg, mt, task[d][t].ret)
          /\ rejections' = rejections
     ELSE /\ rejections' = [rejections EXCEPT ![d] = @ + 1]
          /\ IF Declared(trg, phase[d]) = {}
             THEN Fire(d, t, "trigger_emergency", mt, task[d][t].ret)
             ELSE /\ task' = [task EXCEPT ![d][t].pc = "end"]
                  /\ UNCHANGED <<phase, translog, statelog, deliveries,
                                 relayed>>

\* the `except Exception` handler of a state callback
Fail(d, t) ==
  /\ Fire(d, t, "trigger_emergency", current_mission_type[d], task[d][t].ret)
  /\ rejections' = rejections

Reverse(s) == [i \in 1..Len(s) |-> s[Len(s) + 1 - i]]

\* a callback returned: its transition runs _on_state_change, which
\* publishes the destination on fleet/state/<id>, and returns into the
\* callback that fired it, which has nothing left to do and returns too
Unwind(d, t) ==
  /\ task[d][t].pc = "end"
  /\ statelog' = [statelog EXCEPT ![d] = @ \o Reverse(task[d][t].stack)]
  /\ task' = [task EXCEPT ![d][t] =
                [pc |-> @.ret, stack |-> <<>>, ret |-> @.ret]]
  /\ UNCHANGED <<phase, current_mission_type, target_position, target, inbox,
                 tick, iteration, env_vars, hub_vars, failures, relayed,
                 translog,
                 lastCmd, tf_published, confirms, rejections, serving,
                 deliveries>>

\* a flight command sent to the controller
Command(d, c) ==
  lastCmd' = [lastCmd EXCEPT ![d] = [cmd |-> c, phase |-> phase[d]]]

(* --------------------------- the environment -------------------------- *)
Quiet == \A d \in agents : LoopFree(d)

\* the messages other parties publish: a mission/start of each type (the
\* GENERAL_EMERGENCY with and without a position), target_found messages,
\* and operator answers addressed to a running agent or to another drone
BusMessages ==
  {Msg("mission/start", ty, "none", "none", 0) :
     ty \in {"MOB_EMERGENCY", "GENERAL_EMERGENCY", "UTILITY_HULL_INSPECTION"}}
  \cup {Msg("mission/start", "GENERAL_EMERGENCY", "none", "P1", 0)}
  \cup {Msg("fleet/event/target_found", "none", "other", TargetPos(m), m) :
          m \in 1..MaxTargets}
  \cup {Msg("fleet/event/confirmation", ty, id, "none", 0) :
          ty \in {"OPERATOR_CONFIRM_TARGET", "OPERATOR_REJECT_TARGET"},
          id \in agents \cup {"other"}}

\* a message published on the bus by another party reaches the agents
Publish(m) ==
  /\ Quiet
  /\ inbox' = Deliver(inbox, m)
  /\ injected' = injected + 1
  /\ UNCHANGED <<phase, current_mission_type, target_position, target, task,
                 tick, iteration, agents, hub_vars, vehicle, manual_count,
                 failures, relayed, hist_vars>>

\* another party publishes a message on the bus
Inject ==
  /\ injected < MaxMsgs
  /\ \E m \in BusMessages : Publish(m)

\* the operator's answer to a pending sighting is published on
\* fleet/event/confirmation
OperatorAnswer(d, ty) ==
  /\ injected < MaxMsgs
  /\ d \in agents
  /\ phase[d] = "TARGET_PENDING_CONFIRMATION"
  /\ Publish(Msg("fleet/event/confirmation", ty, d, "none", 0))

\* the local operator switches the vehicle to MANUAL
TakeSticks(d) ==
  /\ d \in agents /\ Quiet
  /\ manual_count < MaxManual
  /\ vehicle[d].state # "MANUAL"
  /\ vehicle' = [vehicle EXCEPT ![d].state = "MANUAL"]
  /\ manual_count' = manual_count + 1
  /\ UNCHANGED <<agent_vars, agents, hub_vars, injected, failures, relayed,
                 hist_vars>>

\* the local operator gives the vehicle back
ReleaseSticks(d) ==
  /\ d \in agents /\ Quiet
  /\ vehicle[d].state = "MANUAL"
  /\ vehicle' = [vehicle EXCEPT ![d].state = "GUIDED"]
  /\ UNCHANGED <<agent_vars, agents, hub_vars, injected, manual_count,
                 failures,
                 relayed, hist_vars>>

\* the battery discharges
Drain(d) ==
  /\ d \in agents /\ Quiet
  /\ \E b \in BatteryLevels :
       /\ b < vehicle[d].battery
       /\ \A c \in BatteryLevels : ~(b < c /\ c < vehicle[d].battery)
       /\ vehicle' = [vehicle EXCEPT ![d].battery = b]
  /\ UNCHANGED <<agent_vars, agents, hub_vars, injected, manual_count,
                 failures,
                 relayed, hist_vars>>

(* -------------------- the Coordinator: operator relay ------------------ *)
\* GcsServer._handle_message hands a CONFIRM_TARGET or REJECT_TARGET frame
\* to Coordinator.handle_operator_confirmation / handle_operator_rejection,
\* which publishes the command on drone/command/<drone_id>.  The operator
\* answers a sighting that is pending.
Relay(d, cmd) ==
  /\ Quiet
  /\ phase[d] = "TARGET_PENDING_CONFIRMATION"
  /\ Len(relayed[d]) < MaxOperator
  /\ inbox' = Deliver(inbox, Msg("drone/command", cmd, d, "none", 0))
  /\ relayed' = [relayed EXCEPT ![d] = Append(@, cmd)]
  /\ UNCHANGED <<phase, current_mission_type, target_position, target, task,
                 tick, iteration, env_vars, hub_vars, failures, hist_vars>>

handle_operator_confirmation(d) ==
  /\ d \in agents
  /\ Relay(d, "OPERATOR_CONFIRM_TARGET")

handle_operator_rejection(d) ==
  /\ d \in agents
  /\ Relay(d, "OPERATOR_REJECT_TARGET")

(* ------------------------- the bus listener --------------------------- *)
\* what a handler of _p2p_event_listener stores and fires: the mission type,
\* the target position and the trigger ("none": no trigger; "error": an
\* exception reaches the handler's `except Exception` before a trigger)
R(mt, tp, trg) == [mt |-> mt, tp |-> tp, trg |-> trg]

\* topic mission/start, the branches of role "scout"
StartScout(d, m, tp0) ==
  CASE m.type = "MOB_EMERGENCY" -> R("MOB_SEARCH", tp0, "start_mission")
    [] m.type = "GENERAL_EMERGENCY"
         -> R("OVERWATCH", tp0, "start_overwatch_mission")
    [] m.type = "UTILITY_HULL_INSPECTION"
         -> IF vehicle[d].battery > high_battery_threshold
            THEN R("PATROL", tp0, "start_patrol_mission")
            ELSE R(current_mission_type[d], tp0, "none")
    [] OTHER -> R(current_mission_type[d], tp0, "none")

\* StartPayload without the ban on utility tasks: the payload drone takes a
\* UTILITY_HULL_INSPECTION as the utility drone does
StartPayload_utility(d, m, tp0) ==
  CASE m.type = "MOB_EMERGENCY"
         -> R("STANDBY", "area", "start_standby_mission")
    [] m.type = "GENERAL_EMERGENCY"
         -> IF tp0 = "none" THEN R("STANDBY", tp0, "error")
            ELSE R("STANDBY", tp0, "start_standby_mission")
    [] m.type = "UTILITY_HULL_INSPECTION"
         -> R("PATROL", tp0, "start_patrol_mission")
    [] OTHER -> R(current_mission_type[d], tp0, "none")

\* topic mission/start, the branches of role "payload": the standby
\* altitude of a GENERAL_EMERGENCY is written into target_position, which
\* is None when no position was ever received
StartPayload(d, m, tp0) ==
  CASE m.type = "MOB_EMERGENCY"
         -> R("STANDBY", "area", "start_standby_mission")
    [] m.type = "GENERAL_EMERGENCY"
         -> IF tp0 = "none" THEN R("STANDBY", tp0, "error")
            ELSE R("STANDBY", tp0, "start_standby_mission")
    [] OTHER -> R(current_mission_type[d], tp0, "none")

\* topic mission/start, the branches of role "utility"
StartUtility(d, m, tp0) ==
  CASE m.type = "MOB_EMERGENCY" -> R("MOB_SEARCH", tp0, "start_mission")
    [] m.type = "GENERAL_EMERGENCY"
         -> IF vehicle[d].battery > min_battery_patrol_rtl
            THEN R("OVERWATCH", tp0, "start_overwatch_mission")
            ELSE R(current_mission_type[d], tp0, "none")
    [] m.type = "UTILITY_HULL_INSPECTION"
         -> R("PATROL", tp0, "start_patrol_mission")
    [] OTHER -> R(current_mission_type[d], tp0, "none")

\* topic mission/start: the position of the message is stored first
OnMissionStart(d, m) ==
  LET tp0 == IF m.position # "none" THEN m.position ELSE target_position[d]
  IN CASE Role(d) = "scout" -> StartScout(d, m, tp0)
       [] Role(d) = "payload" -> StartPayload(d, m, tp0)
       [] Role(d) = "utility" -> StartUtility(d, m, tp0)

\* topic fleet/event/target_found
OnTargetFound(d, m) ==
  IF Role(d) = "payload" /\ phase[d] \in {"ROLE_EMERGENCY_STANDBY", "IDLE"}
  THEN R("PAYLOAD_DELIVERY", m.position, "start_delivery_mission")
  ELSE R(current_mission_type[d], target_position[d], "none")

\* OnConfirmation without the test `target_drone == self.drone.id`
OnConfirmation_any(d, m) ==
  R(current_mission_type[d], target_position[d],
    IF phase[d] = "TARGET_PENDING_CONFIRMATION"
    THEN IF m.type = "OPERATOR_CONFIRM_TARGET" THEN "confirm_target"
         ELSE IF m.type = "OPERATOR_REJECT_TARGET" THEN "reject_target"
              ELSE "none"
    ELSE "none")

\* topic fleet/event/confirmation
OnConfirmation(d, m) ==
  R(current_mission_type[d], target_position[d],
    IF m.drone_id = d /\ phase[d] = "TARGET_PENDING_CONFIRMATION"
    THEN IF m.type = "OPERATOR_CONFIRM_TARGET" THEN "confirm_target"
         ELSE IF m.type = "OPERATOR_REJECT_TARGET" THEN "reject_target"
              ELSE "none"
    ELSE "none")

Handle(d, m) ==
  CASE m.topic = "mission/start" -> OnMissionStart(d, m)
    [] m.topic = "fleet/event/target_found" -> OnTargetFound(d, m)
    [] m.topic = "fleet/event/confirmation" -> OnConfirmation(d, m)
    [] OTHER -> R(current_mission_type[d], target_position[d], "none")

\* the claim's condition on a confirmation: an OPERATOR_CONFIRM_TARGET for
\* this drone received while it is pending
OwnConfirm(d, m) ==
  /\ m.topic = "fleet/event/confirmation"
  /\ m.type = "OPERATOR_CONFIRM_TARGET"
  /\ m.drone_id = d
  /\ phase[d] = "TARGET_PENDING_CONFIRMATION"

\* ListenerRejects as the `except Exception` of a state callback answers an
\* error: with trigger_emergency
ListenerRejects_emergency(d, trg) ==
  /\ rejections' = [rejections EXCEPT ![d] = @ + 1]
  /\ Fire(d, "L", "trigger_emergency", current_mission_type[d], "recv")

\* the listener's `except Exception`: the MachineError of a trigger that no
\* transition accepts in the current phase (or the False of a trigger whose
\* conditions all fail) is logged, and the loop goes on
ListenerRejects(d, trg) ==
  /\ rejections' = [rejections EXCEPT ![d] = @ + 1]
  /\ UNCHANGED <<phase, translog, statelog, task, deliveries, relayed>>

\* one iteration of `async for topic, payload in self.mqtt.listen()`: the
\* handler stores the mission type and target position, then fires its
\* trigger
Recv(d) ==
  /\ d \in agents /\ LoopFree(d)
  /\ task[d]["L"].pc = "recv"
  /\ inbox[d] # <<>>
  /\ LET m == Head(inbox[d])
         h == Handle(d, m)
     IN /\ inbox' = [inbox EXCEPT ![d] = Tail(@)]
        /\ current_mission_type' = [current_mission_type EXCEPT ![d] = h.mt]
        /\ target_position' = [target_position EXCEPT ![d] = h.tp]
        /\ serving' = IF h.trg = "start_delivery_mission"
                      THEN [serving EXCEPT ![d] = m.mid] ELSE serving
        /\ confirms' = IF OwnConfirm(d, m)
                       THEN [confirms EXCEPT ![d] = @ + 1] ELSE confirms
        /\ IF h.trg \in {"none", "error"}
           THEN UNCHANGED <<phase, translog, statelog, task, deliveries,
                            relayed, rejections>>
           ELSE IF Match(h.trg, phase[d], Role(d), h.mt) # 0
           THEN /\ Fire(d, "L", h.trg, h.mt, "recv")
                /\ rejections' = rejections
           ELSE ListenerRejects(d, h.trg)
  /\ UNCHANGED <<target, tick, iteration, env_vars, hub_vars, failures,
                 lastCmd,
                 tf_published>>

(* -------------------------- state callbacks --------------------------- *)
\* the outcomes of a controller command or connect: TRUE is success
Outcomes == IF failures < MaxFailures THEN BOOLEAN ELSE {TRUE}

\* SearchBehavior.search_step: self.iteration += 1; only its comparison with
\* max_search_iterations is observed, so the count stops there
Scanned(d) ==
  iteration' = [iteration EXCEPT
                  ![d] = IF @ < max_search_iterations THEN @ + 1 ELSE @]

At(d, t, l) == d \in agents /\ task[d][t].pc = l

\* a suspended task is resumed: the event loop must be free
Resume(d, t, l) == At(d, t, l) /\ LoopFree(d)

Goto(d, t, l) == task' = [task EXCEPT ![d][t].pc = l]

\* _run_preflight up to the controller and camera connect
run_preflight(d, t) ==
  /\ At(d, t, "run_preflight")
  /\ Goto(d, t, "preflight_wait")
  /\ UNCHANGED <<phase, current_mission_type, target_position, target, inbox,
                 tick, iteration, env_vars, hub_vars, failures, relayed,
                 hist_vars>>

\* _run_preflight from the connect results on: ok is False when the drone
\* or the camera system fails to connect
preflight_done(d, t) ==
  /\ Resume(d, t, "preflight_wait")
  /\ \E ok \in Outcomes :
       /\ failures' = IF ok THEN failures ELSE failures + 1
       /\ IF ok /\ ~(vehicle[d].battery < min_battery_preflight)
          THEN FireInCallback(d, t, "preflight_success")
          ELSE Fail(d, t)
  /\ UNCHANGED <<current_mission_type, target_position, target, inbox, tick,
                 iteration, env_vars, hub_vars, lastCmd, tf_published,
                 confirms,
                 serving>>

\* _run_takeoff up to drone.takeoff(alt); the altitude of an OVERWATCH or
\* STANDBY mission is read from target_position, which may be None
run_takeoff(d, t) ==
  /\ At(d, t, "run_takeoff")
  /\ IF /\ current_mission_type[d] \in {"OVERWATCH", "STANDBY"}
        /\ target_position[d] = "none"
     THEN Fail(d, t) /\ lastCmd' = lastCmd
     ELSE /\ Command(d, "takeoff")
          /\ Goto(d, t, "takeoff_wait")
          /\ UNCHANGED <<phase, translog, statelog, deliveries, relayed,
                         rejections>>
  /\ UNCHANGED <<current_mission_type, target_position, target, inbox, tick,
                 iteration, env_vars, hub_vars, failures, tf_published,
                 confirms,
                 serving>>

takeoff_done(d, t) ==
  /\ Resume(d, t, "takeoff_wait")
  /\ \E ok \in Outcomes :
       /\ failures' = IF ok THEN failures ELSE failures + 1
       /\ IF ok THEN FireInCallback(d, t, "takeoff_success") ELSE Fail(d, t)
  /\ UNCHANGED <<current_mission_type, target_position, target, inbox, tick,
                 iteration, env_vars, hub_vars, lastCmd, tf_published,
                 confirms,
                 serving>>

\* the head of the loop of _run_search_step: the scout flies to the next
\* waypoint of its probability grid, the utility drone scans in place
SearchIteration(d, t) ==
  /\ IF Role(d) = "scout"
     THEN Command(d, "go_to") /\ Goto(d, t, "search_goto_wait")
     ELSE lastCmd' = lastCmd /\ Goto(d, t, "search_scan_wait")
  /\ UNCHANGED <<phase, current_mission_type, target_position, target, inbox,
                 tick, iteration, env_vars, hub_vars, failures, relayed,
                 translog,
                 statelog, tf_published, confirms, rejections, serving,
                 deliveries>>

run_search_step(d, t) ==
  /\ At(d, t, "run_search_step")
  /\ SearchIteration(d, t)

search_loop(d, t) ==
  /\ Resume(d, t, "search_sleep")
  /\ SearchIteration(d, t)

search_arrived(d, t) ==
  /\ Resume(d, t, "search_goto_wait")
  /\ Goto(d, t, "search_scan_wait")
  /\ UNCHANGED <<phase, current_mission_type, target_position, target, inbox,
                 tick, iteration, env_vars, hub_vars, failures, relayed,
                 hist_vars>>

\* SearchBehavior.search_step returned (should_continue, detection), then the
\* common logic of the loop
search_scanned(d, t) ==
  /\ Resume(d, t, "search_scan_wait")
  /\ Scanned(d)
  /\ \E det \in Positions \cup {"none"} :
       IF det # "none"
       THEN /\ target' = [target EXCEPT ![d] = det]
            /\ FireInCallback(d, t, "target_sighted")
       ELSE /\ target' = target
            /\ IF iteration'[d] >= max_search_iterations
               THEN FireInCallback(d, t, "search_complete_negative")
               ELSE /\ Goto(d, t, "search_sleep")
                    /\ UNCHANGED <<phase, translog, statelog, deliveries,
                                   relayed, rejections>>
  /\ UNCHANGED <<current_mission_type, target_position, inbox, tick, env_vars,
                 hub_vars,
                 failures, lastCmd, tf_published, confirms, serving>>

\* _run_standby: fly to the standby position, then hover until the phase
\* changes
run_standby(d, t) ==
  /\ At(d, t, "run_standby")
  /\ Command(d, "go_to")
  /\ Goto(d, t, "standby_goto_wait")
  /\ UNCHANGED <<phase, current_mission_type, target_position, target, inbox,
                 tick, iteration, env_vars, hub_vars, failures, relayed,
                 translog,
                 statelog, tf_published, confirms, rejections, serving,
                 deliveries>>

standby_arrived(d, t) ==
  /\ Resume(d, t, "standby_goto_wait")
  /\ Goto(d, t, "standby_sleep")
  /\ UNCHANGED <<phase, current_mission_type, target_position, target, inbox,
                 tick, iteration, env_vars, hub_vars, failures, relayed,
                 hist_vars>>

\* the head of the loop of _run_patrol
PatrolIteration(d, t) ==
  /\ IF vehicle[d].battery < min_battery_patrol_rtl
     THEN FireInCallback(d, t, "patrol_battery_low")
     ELSE /\ Goto(d, t, "patrol_scan_wait")
          /\ UNCHANGED <<phase, translog, statelog, deliveries, relayed,
                         rejections>>
  /\ UNCHANGED <<current_mission_type, target_position, target, inbox, tick,
                 iteration, env_vars, hub_vars, failures, lastCmd,
                 tf_published,
                 confirms, serving>>

run_patrol(d, t) ==
  /\ At(d, t, "run_patrol")
  /\ PatrolIteration(d, t)

patrol_loop(d, t) ==
  /\ Resume(d, t, "patrol_sleep")
  /\ PatrolIteration(d, t)

\* a sighting during patrol is only logged
patrol_scanned(d, t) ==
  /\ Resume(d, t, "patrol_scan_wait")
  /\ Scanned(d)
  /\ \E det \in BOOLEAN :
       IF ~det /\ iteration'[d] >= max_search_iterations
       THEN FireInCallback(d, t, "patrol_complete")
       ELSE /\ Goto(d, t, "patrol_sleep")
            /\ UNCHANGED <<phase, translog, statelog, deliveries, relayed,
                           rejections>>
  /\ UNCHANGED <<current_mission_type, target_position, target, inbox, tick,
                 env_vars, hub_vars, failures, lastCmd, tf_published, confirms,
                 serving>>

\* _run_overwatch: scans while the phase is ROLE_EMERGENCY_EYES; no trigger
\* ends it, and in any other phase the loop is skipped
run_overwatch(d, t) ==
  /\ At(d, t, "run_overwatch")
  /\ Goto(d, t, IF phase[d] = "ROLE_EMERGENCY_EYES"
                THEN "overwatch_wait" ELSE "end")
  /\ UNCHANGED <<phase, current_mission_type, target_position, target, inbox,
                 tick, iteration, env_vars, hub_vars, failures, relayed,
                 hist_vars>>

\* one scan of the overwatch loop; a sighting is only logged
overwatch_scanned(d, t) ==
  /\ Resume(d, t, "overwatch_wait")
  /\ Scanned(d)
  /\ UNCHANGED <<phase, current_mission_type, target_position, target, inbox,
                 task, tick, env_vars, hub_vars, failures, relayed, hist_vars>>

\* _run_payload_delivery, DeliveryBehavior.deliver_to: go_to, hover, LEDs
run_payload_delivery(d, t) ==
  /\ At(d, t, "run_payload_delivery")
  /\ Command(d, "go_to")
  /\ Goto(d, t, "deliver_goto_wait")
  /\ UNCHANGED <<phase, current_mission_type, target_position, target, inbox,
                 tick, iteration, env_vars, hub_vars, failures, relayed,
                 translog,
                 statelog, tf_published, confirms, rejections, serving,
                 deliveries>>

deliver_arrived(d, t) ==
  /\ Resume(d, t, "deliver_goto_wait")
  /\ Command(d, "hover")
  /\ Goto(d, t, "deliver_hover_wait")
  /\ UNCHANGED <<phase, current_mission_type, target_position, target, inbox,
                 tick, iteration, env_vars, hub_vars, failures, relayed,
                 translog,
                 statelog, tf_published, confirms, rejections, serving,
                 deliveries>>

deliver_done(d, t) ==
  /\ Resume(d, t, "deliver_hover_wait")
  /\ FireInCallback(d, t, "delivery_complete")
  /\ UNCHANGED <<current_mission_type, target_position, target, inbox, tick,
                 iteration, env_vars, hub_vars, failures, lastCmd,
                 tf_published,
                 confirms, serving>>

\* run_return_to_home with a release callback that only resumes the
\* telemetry log: after local_operator_release no RTL command is issued
run_return_to_home_no_release(d, t) ==
  /\ \/ At(d, t, "run_return_to_home")
     \/ At(d, t, "run_local_operator_release")
  /\ IF At(d, t, "run_local_operator_release")
     THEN /\ Goto(d, t, "end")
          /\ lastCmd' = lastCmd
     ELSE /\ Command(d, "return_to_home")
          /\ Goto(d, t, "rtl_wait")
  /\ UNCHANGED <<phase, current_mission_type, target_position, target, inbox,
                 tick, iteration, env_vars, hub_vars, failures, relayed,
                 translog,
                 statelog, tf_published, confirms, rejections, serving,
                 deliveries>>

\* _run_return_to_home up to drone.return_to_home(); _run_local_operator_
\* release calls it directly
run_return_to_home(d, t) ==
  /\ \/ At(d, t, "run_return_to_home")
     \/ At(d, t, "run_local_operator_release")
  /\ Command(d, "return_to_home")
  /\ Goto(d, t, "rtl_wait")
  /\ UNCHANGED <<phase, current_mission_type, target_position, target, inbox,
                 tick, iteration, env_vars, hub_vars, failures, relayed,
                 translog,
                 statelog, tf_published, confirms, rejections, serving,
                 deliveries>>

\* the RTL command failed, or the drone is seen at home
rtl_done(d, t) ==
  /\ Resume(d, t, "rtl_wait")
  /\ \E ok \in Outcomes :
       /\ failures' = IF ok THEN failures ELSE failures + 1
       /\ IF ok THEN FireInCallback(d, t, "arrived_home") ELSE Fail(d, t)
  /\ UNCHANGED <<current_mission_type, target_position, target, inbox, tick,
                 iteration, env_vars, hub_vars, lastCmd, tf_published,
                 confirms,
                 serving>>

run_land(d, t) ==
  /\ At(d, t, "run_land")
  /\ Command(d, "land")
  /\ Goto(d, t, "land_wait")
  /\ UNCHANGED <<phase, current_mission_type, target_position, target, inbox,
                 tick, iteration, env_vars, hub_vars, failures, relayed,
                 translog,
                 statelog, tf_published, confirms, rejections, serving,
                 deliveries>>

land_done(d, t) ==
  /\ Resume(d, t, "land_wait")
  /\ \E ok \in Outcomes :
       /\ failures' = IF ok THEN failures ELSE failures + 1
       /\ IF ok THEN FireInCallback(d, t, "land_complete") ELSE Fail(d, t)
  /\ UNCHANGED <<current_mission_type, target_position, target, inbox, tick,
                 iteration, env_vars, hub_vars, lastCmd, tf_published,
                 confirms,
                 serving>>

\* _log_mission_summary fires mission_finished
log_mission_summary(d, t) ==
  /\ At(d, t, "log_mission_summary")
  /\ Fire(d, t, "mission_finished", current_mission_type[d], task[d][t].ret)
  /\ UNCHANGED <<current_mission_type, target_position, target, inbox, tick,
                 iteration, env_vars, hub_vars, failures, lastCmd,
                 tf_published,
                 confirms, rejections, serving>>

\* _run_emergency_land: land at once, then reset_from_emergency
run_emergency_land(d, t) ==
  /\ At(d, t, "run_emergency_land")
  /\ Command(d, "land")
  /\ Goto(d, t, "eland_wait")
  /\ UNCHANGED <<phase, current_mission_type, target_position, target, inbox,
                 tick, iteration, env_vars, hub_vars, failures, relayed,
                 translog,
                 statelog, tf_published, confirms, rejections, serving,
                 deliveries>>

emergency_landed(d, t) ==
  /\ Resume(d, t, "eland_wait")
  /\ Fire(d, t, "reset_from_emergency", current_mission_type[d],
          task[d][t].ret)
  /\ UNCHANGED <<current_mission_type, target_position, target, inbox, tick,
                 iteration, env_vars, hub_vars, failures, lastCmd,
                 tf_published,
                 confirms, rejections, serving>>

\* _run_local_operator_takeover: drone.hold()
run_local_operator_takeover(d, t) ==
  /\ At(d, t, "run_local_operator_takeover")
  /\ Command(d, "hold")
  /\ Goto(d, t, "hold_wait")
  /\ UNCHANGED <<phase, current_mission_type, target_position, target, inbox,
                 tick, iteration, env_vars, hub_vars, failures, relayed,
                 translog,
                 statelog, tf_published, confirms, rejections, serving,
                 deliveries>>

hold_done(d, t) ==
  /\ Resume(d, t, "hold_wait")
  /\ Goto(d, t, "end")
  /\ UNCHANGED <<phase, current_mission_type, target_position, target, inbox,
                 tick, iteration, env_vars, hub_vars, failures, relayed,
                 hist_vars>>

\* _request_operator_confirmation publishes PENDING_CONFIRMATION on
\* fleet/event/<id>, a topic no agent subscribes to
request_operator_confirmation(d, t) ==
  /\ At(d, t, "request_operator_confirmation")
  /\ Goto(d, t, "end")
  /\ UNCHANGED <<phase, current_mission_type, target_position, target, inbox,
                 tick, iteration, env_vars, hub_vars, failures, relayed,
                 hist_vars>>

\* handle_rejection as a handler that hands the rejected sighting over:
\* it publishes fleet/event/target_found as _request_delivery does
handle_rejection_publishes(d, t) ==
  /\ At(d, t, "handle_rejection")
  /\ target' = [target EXCEPT ![d] = "none"]
  /\ tf_published' = [tf_published EXCEPT ![d] = @ + 1]
  /\ Goto(d, t, "end")
  /\ UNCHANGED <<phase, current_mission_type, target_position, inbox, tick,
                 iteration, env_vars, hub_vars, failures, relayed, translog,
                 statelog,
                 lastCmd, confirms, rejections, serving, deliveries>>

\* _handle_rejection: the sighting is dropped
handle_rejection(d, t) ==
  /\ At(d, t, "handle_rejection")
  /\ target' = [target EXCEPT ![d] = "none"]
  /\ Goto(d, t, "end")
  /\ UNCHANGED <<phase, current_mission_type, target_position, inbox, tick,
                 iteration, env_vars, hub_vars, failures, relayed, hist_vars>>

\* _request_delivery publishes fleet/event/target_found, then fires
\* delivery_request_sent
request_delivery(d, t) ==
  /\ At(d, t, "request_delivery")
  /\ inbox' = Deliver(inbox,
                Msg("fleet/event/target_found", "none", d, target[d], 0))
  /\ tf_published' = [tf_published EXCEPT ![d] = @ + 1]
  /\ Fire(d, t, "delivery_request_sent", current_mission_type[d],
          task[d][t].ret)
  /\ UNCHANGED <<current_mission_type, target_position, target, tick,
                 iteration, env_vars, hub_vars, failures, lastCmd, confirms,
                 rejections,
                 serving>>

(* ------------------------- the health monitor ------------------------- *)
\* Drone.is_healthy: the battery is above the emergency threshold
is_healthy(d) == vehicle[d].battery > min_battery_emergency

NoTick == [is_manual |-> FALSE, is_in_local_control |-> FALSE]

\* the health check of a tick, made with the value of is_in_local_control
\* that was computed before the takeover or release trigger was awaited
HealthCheck(d, loc, healthy) ==
  IF ~loc /\ ~healthy
  THEN Fire(d, "H", "trigger_emergency", current_mission_type[d], "sleep")
  ELSE /\ Goto(d, "H", "sleep")
       /\ UNCHANGED <<phase, translog, statelog, deliveries, relayed>>

\* one iteration of _health_monitor up to its first await that suspends
Tick(d) ==
  /\ Resume(d, "H", "sleep")
  /\ LET man == vehicle[d].state = "MANUAL"
         loc == phase[d] = "LOCAL_OPERATOR_CONTROL"
         mt == current_mission_type[d]
     IN IF phase[d] \in {"IDLE", "PREFLIGHT"}
        THEN UNCHANGED <<phase, translog, statelog, task, deliveries, relayed,
                         tick>>
        ELSE IF man /\ ~loc
        THEN /\ Fire(d, "H", "local_operator_takeover", mt, "h_check")
             /\ tick' = [tick EXCEPT ![d] =
                  [is_manual |-> man, is_in_local_control |-> loc]]
        ELSE IF ~man /\ loc
        THEN /\ Fire(d, "H", "local_operator_release", mt, "h_check")
             /\ tick' = [tick EXCEPT ![d] =
                  [is_manual |-> man, is_in_local_control |-> loc]]
        ELSE /\ HealthCheck(d, loc, is_healthy(d))
             /\ tick' = tick
  /\ UNCHANGED <<current_mission_type, target_position, target, inbox,
                 iteration, env_vars, hub_vars, failures, lastCmd,
                 tf_published,
                 confirms, rejections, serving>>

\* the tick goes on after local_operator_takeover or local_operator_release
\* returned
h_check(d) ==
  /\ At(d, "H", "h_check")
  /\ HealthCheck(d, tick[d].is_in_local_control, is_healthy(d))
  /\ tick' = [tick EXCEPT ![d] = NoTick]
  /\ UNCHANGED <<current_mission_type, target_position, target, inbox,
                 iteration, env_vars, hub_vars, failures, lastCmd,
                 tf_published,
                 confirms, rejections, serving>>

(* --------------------------- specification ---------------------------- *)
AgentStep(d, t) ==
  \/ Unwind(d, t)
  \/ run_preflight(d, t) \/ preflight_done(d, t)
  \/ run_takeoff(d, t) \/ takeoff_done(d, t)
  \/ run_search_step(d, t) \/ search_loop(d, t)
  \/ search_arrived(d, t) \/ search_scanned(d, t)
  \/ run_standby(d, t) \/ standby_arrived(d, t)
  \/ run_patrol(d, t) \/ patrol_loop(d, t) \/ patrol_scanned(d, t)
  \/ run_overwatch(d, t) \/ overwatch_scanned(d, t)
  \/ run_payload_delivery(d, t) \/ deliver_arrived(d, t)
  \/ deliver_done(d, t)
  \/ run_return_to_home(d, t) \/ rtl_done(d, t)
  \/ run_land(d, t) \/ land_done(d, t)
  \/ log_mission_summary(d, t)
  \/ run_emergency_land(d, t) \/ emergency_landed(d, t)
  \/ run_local_operator_takeover(d, t) \/ hold_done(d, t)
  \/ request_operator_confirmation(d, t) \/ handle_rejection(d, t)
  \/ request_delivery(d, t)

Next ==
  \/ Inject
  \/ \E d \in Drones : TakeSticks(d)
  \/ \E d \in Drones : ReleaseSticks(d)
  \/ \E d \in Drones : Drain(d)
  \/ \E d \in Drones : handle_operator_confirmation(d)
  \/ \E d \in Drones : handle_operator_rejection(d)
  \/ \E d \in Drones : Recv(d)
  \/ \E d \in Drones : Tick(d)
  \/ \E d \in Drones : h_check(d)
  \/ \E d \in Drones, t \in Tasks : AgentStep(d, t)

Spec == Init /\ [][Next]_vars

TypeOK ==
  /\ phase \in [Drones -> MissionPhase]
  /\ \A d \in Drones : \A t \in Tasks : Len(task[d][t].stack) <= 12

\* the event loop runs every task that is ready, and controller commands,
\* scans and sleeps complete
FairSpec ==
  /\ Spec
  /\ WF_vars(\E d \in Drones : Recv(d))
  /\ WF_vars(\E d \in Drones : Tick(d) \/ h_check(d))
  /\ WF_vars(\E d \in Drones, t \in Tasks : AgentStep(d, t))

(* ------------------- the fleet in a MOB mission ----------------------- *)
\* the scout and one more agent of the fleet run and have the MOB_EMERGENCY
\* of the operator in their queues; no controller command fails, the local
\* operator does not take the sticks and the batteries stay charged
FleetInit ==
  /\ agents \in {{"scout_1", d} : d \in Drones \ {"scout_1"}}
  /\ AgentInit
  /\ inbox = [d \in Drones |->
                IF d \in agents
                THEN <<Msg("mission/start", "MOB_EMERGENCY", "none", "none",
                           0)>>
                ELSE <<>>]
  /\ injected = 0
  /\ manual_count = MaxManual
  /\ failures = MaxFailures
  /\ CoordInit
  /\ BusInit
  /\ GossipInit
  /\ GridInit(Origin)

\* the state callbacks that run in the mission
FleetStep(d, t) ==
  \/ Unwind(d, t)
  \/ run_preflight(d, t) \/ preflight_done(d, t)
  \/ run_takeoff(d, t) \/ takeoff_done(d, t)
  \/ run_search_step(d, t) \/ search_loop(d, t)
  \/ search_arrived(d, t) \/ search_scanned(d, t)
  \/ run_standby(d, t) \/ standby_arrived(d, t)
  \/ run_return_to_home(d, t) \/ rtl_done(d, t)
  \/ run_land(d, t) \/ land_done(d, t)
  \/ log_mission_summary(d, t)
  \/ request_operator_confirmation(d, t) \/ handle_rejection(d, t)
  \/ request_delivery(d, t)

FleetNext ==
  \/ \E d \in Drones, ty \in {"OPERATOR_CONFIRM_TARGET",
                             "OPERATOR_REJECT_TARGET"} :
       OperatorAnswer(d, ty)
  \/ \E d \in Drones : Recv(d)
  \/ \E d \in Drones, t \in Tasks : FleetStep(d, t)

\* the event loop of every agent runs every task that is ready, and
\* controller commands, scans and sleeps complete
FleetSpec ==
  /\ FleetInit
  /\ [][FleetNext]_vars
  /\ WF_vars(\E d \in Drones : Recv(d))
  /\ WF_vars(\E d \in Drones, t \in Tasks : FleetStep(d, t))

(* -------------- the search manager called on its own ------------------ *)
\* the positions reported to the manager: near a cell centre, between
\* centres, and one that lies outside an area centred at the origin
WorldPoints ==
  {[x |-> a, y |-> b, z |-> search_altitude] : a \in {-600, 700},
                                               b \in {-600, 0}}
  \cup {[x |-> 1200, y |-> 0, z |-> search_altitude]}

\* config.strategies.search.area: the configured area centres
AreaCentres == {Origin, [x |-> 300, y |-> -200, z |-> 0]}

\* the dt passed to evolve_map: 1.0 by the scout's search loop, the
\* configured evolve_interval_s by the Coordinator
EvolveIntervals == {1, 5, 3000}

\* a call on the manager is counted and remembered
Called(c) ==
  /\ ncalls < MaxCalls
  /\ ncalls' = ncalls + 1
  /\ calls' = IF Len(calls) < 2 THEN Append(calls, c) ELSE <<calls[2], c>>

SetGrid(r) ==
  /\ probability_grid' = r.grid
  /\ grid_scale' = r.scale

InitializeMap ==
  /\ Called(Call("initialize_map", Origin, FALSE, Origin))
  /\ SetGrid([grid |-> Uniform, scale |-> grid_size * grid_size])

GetNextSearchWaypoint ==
  /\ Called(Call("get_next_search_waypoint", Origin, FALSE,
                 NextWaypoint(probability_grid, area)))
  /\ SetGrid(Suppress(probability_grid, grid_scale,
                      ArgMax(probability_grid)))

UpdateMapCall(pos, alt, det) ==
  /\ Called(Call("update_map", pos, det, Origin))
  /\ SetGrid(UpdateMap(probability_grid, grid_scale, pos, alt, det))

EvolveMapCall(dt) ==
  /\ Called([Call("evolve_map", Origin, FALSE, Origin) EXCEPT !.dt = dt])
  /\ SetGrid([grid |-> EvolveMap(probability_grid, dt),
              scale |-> grid_scale])

ConfirmTargetAt(pos) ==
  /\ Called(Call("confirm_target_at", pos, FALSE, Origin))
  /\ SetGrid([grid |-> Locked(LockCell(pos, area)), scale |-> 1])

initialize_map ==
  /\ InitializeMap
  /\ UNCHANGED <<area, drone_vars, coord_vars>>

get_next_search_waypoint ==
  /\ GetNextSearchWaypoint
  /\ UNCHANGED <<area, drone_vars, coord_vars>>

update_map(pos, alt, det) ==
  /\ UpdateMapCall(pos, alt, det)
  /\ UNCHANGED <<area, drone_vars, coord_vars>>

evolve_map(dt) ==
  /\ EvolveMapCall(dt)
  /\ UNCHANGED <<area, drone_vars, coord_vars>>

confirm_target_at(pos) ==
  /\ ConfirmTargetAt(pos)
  /\ UNCHANGED <<area, drone_vars, coord_vars>>

\* a manager constructed around one of the area centres; no agent and no
\* Coordinator runs
GridSpecInit ==
  /\ agents = {}
  /\ AgentInit
  /\ inbox = [d \in Drones |-> <<>>]
  /\ injected = 0
  /\ manual_count = 0
  /\ failures = 0
  /\ CoordInit
  /\ BusInit
  /\ GossipInit
  /\ \E a \in AreaCentres : GridInit(a)

GridNext ==
  \/ initialize_map
  \/ get_next_search_waypoint
  \/ \E pos \in WorldPoints, det \in BOOLEAN : update_map(pos, pos.z, det)
  \/ \E dt \in EvolveIntervals : evolve_map(dt)
  \/ \E pos \in WorldPoints : confirm_target_at(pos)

GridSpec == GridSpecInit /\ [][GridNext]_vars

(* --------------------------- the Coordinator -------------------------- *)
\* the phases a drone reports on fleet/state/<id>, one of each kind the
\* Coordinator tells apart: the names it compares with ("IDLE",
\* "PATROLLING", "SEARCHING", which the v_0.2 agents report) and names of
\* MissionPhase that it matches with none of them
ReportedStates ==
  {"IDLE", "PATROLLING", "SEARCHING", "ROLE_SEARCH_PRIMARY"}

\* the phases in which a drone searches
SearchingPhases ==
  {"SEARCHING", "ROLE_SEARCH_PRIMARY", "ROLE_SEARCH_ASSIST"}

\* the positions that telemetry and events report
ReportedPoints ==
  {pos \in WorldPoints : pos.x = -600 /\ pos.y = -600}

\* _find_drone_by_role: the first drone of the fleet with the role
FindDroneByRole(rl) == CHOOSE d \in Drones : Role(d) = rl

\* topic fleet/connect
handle_connect(d) ==
  /\ fleet[d] = "UNKNOWN"
  /\ fleet' = [fleet EXCEPT ![d] = "IDLE"]
  /\ reported' = [reported EXCEPT ![d] = "IDLE"]
  /\ UNCHANGED <<loop_vars, media_vars, grid_vars, drone_vars>>

\* MediaServer.stop_stream: the task of the entry is cancelled and the
\* entry is deleted
StopStream(d) ==
  /\ stream_tasks' =
       {IF t.drone = d /\ t.n = active_streams[d]
        THEN [t EXCEPT !.cancelled = TRUE] ELSE t : t \in stream_tasks}
  /\ active_streams' = [active_streams EXCEPT ![d] = 0]

\* topic fleet/state/<id>: the reported phase is stored, and the stream of
\* a drone that was known as OVERWATCH and reports another phase is stopped
handle_state(d, st) ==
  /\ fleet' = [fleet EXCEPT ![d] = st]
  /\ reported' = [reported EXCEPT ![d] = st]
  /\ overwatch_tasking' =
       IF st = "IDLE" /\ overwatch_tasking[d] = "tasked"
       THEN [overwatch_tasking EXCEPT ![d] = "ended"]
       ELSE overwatch_tasking
  /\ IF fleet[d] = "OVERWATCH" /\ st # "OVERWATCH"
     THEN StopStream(d)
     ELSE UNCHANGED <<active_streams, stream_tasks>>
  /\ UNCHANGED <<nstreams, loop_vars, grid_vars, drone_vars>>

\* topic fleet/telemetry/<id>: the ping of a drone known to be SEARCHING is
\* a no-detection observation (in any other phase only the telemetry is
\* stored and forwarded)
handle_telemetry(d, pos) ==
  /\ fleet[d] = "SEARCHING"
  /\ UpdateMapCall(pos, pos.z, FALSE)
  /\ UNCHANGED <<area, coord_vars, drone_vars>>

\* topic fleet/event/<id>: TARGET_DELIVERY_REQUEST locks the map and tasks
\* the payload drone on drone/command/<id>, AI_DETECTION updates the map
\* (PENDING_CONFIRMATION is only forwarded to the GCS)
handle_event(d, ty, pos) ==
  /\ IF ty = "TARGET_DELIVERY_REQUEST" THEN ConfirmTargetAt(pos)
     ELSE UpdateMapCall(pos, pos.z, TRUE)
  /\ UNCHANGED <<area, coord_vars, drone_vars>>

\* _evolve_map_loop: one period
evolve_map_loop ==
  /\ fleet[FindDroneByRole("scout")] = "SEARCHING"
  /\ EvolveMapCall(evolve_interval_s)
  /\ UNCHANGED <<area, coord_vars, drone_vars>>

\* the task that prob_search_loop_task refers to, when it has not ended:
\* Task.cancel() requests its cancellation, and the handle is overwritten
Detach(cancelled) ==
  IF prob_search_loop_task.pc \in {"ready", "sleep"}
  THEN {[scout_id |-> prob_search_loop_task.scout_id,
         pc |-> prob_search_loop_task.pc, cancelled |-> cancelled]}
  ELSE {}

\* StartLoop without the cancel(): the handle is overwritten and the task it
\* referred to runs on
StartLoop_no_cancel(d) ==
  /\ commands' = commands \cup {Cmd(d, "START_MISSION")}
  /\ detached_tasks' = detached_tasks \cup Detach(FALSE)
  /\ prob_search_loop_task' = [scout_id |-> d, pc |-> "ready"]
  /\ tasked_from' = fleet[d]
  /\ goto_published' = [goto_published EXCEPT ![d] = 0]

\* trigger_mob_event: START_MISSION is published on drone/command/<d>, the
\* running loop is cancelled and
\* asyncio.create_task(_probabilistic_search_loop(d)) starts the new one
StartLoop(d) ==
  /\ commands' = commands \cup {Cmd(d, "START_MISSION")}
  /\ detached_tasks' = detached_tasks \cup Detach(TRUE)
  /\ prob_search_loop_task' = [scout_id |-> d, pc |-> "ready"]
  /\ tasked_from' = fleet[d]
  /\ goto_published' = [goto_published EXCEPT ![d] = 0]

\* trigger_mob_event that tasks the scout or nobody: no failover to the
\* utility drone
trigger_mob_event_no_failover ==
  /\ InitializeMap
  /\ LET scout == FindDroneByRole("scout")
         payload_drone == FindDroneByRole("payload")
         warning == IF fleet[payload_drone] = "IDLE" THEN {}
                    ELSE {"WARNING"}
     IN IF fleet[scout] \in {"IDLE", "PATROLLING"}
        THEN /\ StartLoop(scout)
             /\ last_mob' = [started |-> {scout}, broadcast |-> warning]
        ELSE /\ last_mob' = [started |-> {}, broadcast |-> {"ERROR"}]
             /\ UNCHANGED <<prob_search_loop_task, detached_tasks,
                            tasked_from, goto_published, commands>>
  /\ UNCHANGED <<area, fleet, reported, media_vars, drone_vars>>

\* trigger_mob_event (GCS frame TRIGGER_MOB_MODE): the map is initialized,
\* START_MISSION is published on drone/command/<id> of the scout, or of the
\* utility drone when the scout is not IDLE or PATROLLING, and the search
\* loop is started for that drone; without a search drone ERROR is
\* broadcast to the GCS and the handler returns; otherwise WARNING is
\* broadcast unless the payload drone is known as IDLE
trigger_mob_event ==
  /\ InitializeMap
  /\ LET scout == FindDroneByRole("scout")
         utility == FindDroneByRole("utility")
         payload_drone == FindDroneByRole("payload")
         warning == IF fleet[payload_drone] = "IDLE" THEN {}
                    ELSE {"WARNING"}
     IN IF fleet[scout] \in {"IDLE", "PATROLLING"}
        THEN /\ StartLoop(scout)
             /\ last_mob' = [started |-> {scout}, broadcast |-> warning]
        ELSE IF fleet[utility] \in {"IDLE", "PATROLLING"}
        THEN /\ StartLoop(utility)
             /\ last_mob' = [started |-> {utility}, broadcast |-> warning]
        ELSE /\ last_mob' = [started |-> {}, broadcast |-> {"ERROR"}]
             /\ UNCHANGED <<prob_search_loop_task, detached_tasks,
                            tasked_from, goto_published, commands>>
  /\ UNCHANGED <<area, fleet, reported, media_vars, drone_vars>>

\* one iteration of _probabilistic_search_loop for drone d, from the task's
\* start or from the end of its sleep to the break (pc "done") or to the
\* next sleep, after GOTO_WAYPOINT was published on drone/command/<d>
LoopIteration(d, pc) ==
  IF fleet[d] # "SEARCHING"
  THEN /\ pc = "done"
       /\ UNCHANGED <<goto_published, commands, grid_vars>>
  ELSE /\ pc = "sleep"
       /\ GetNextSearchWaypoint
       /\ goto_published' = [goto_published EXCEPT ![d] = @ + 1]
       /\ commands' = commands \cup {Cmd(d, "GOTO_WAYPOINT")}
       /\ area' = area

\* a search loop that reports the end of the search itself: when it stops
\* it writes the phase IDLE into the roster
probabilistic_search_loop_writes_roster ==
  /\ prob_search_loop_task.pc \in {"ready", "sleep"}
  /\ \E pc \in {"done", "sleep"} :
       /\ LoopIteration(prob_search_loop_task.scout_id, pc)
       /\ prob_search_loop_task' =
            [prob_search_loop_task EXCEPT !.pc = pc]
       /\ fleet' = IF pc = "done"
                   THEN [fleet EXCEPT ![prob_search_loop_task.scout_id] =
                           "IDLE"]
                   ELSE fleet
  /\ UNCHANGED <<reported, detached_tasks, tasked_from, last_mob,
                 media_vars, drone_vars>>

\* the task that prob_search_loop_task refers to runs one iteration
probabilistic_search_loop ==
  /\ prob_search_loop_task.pc \in {"ready", "sleep"}
  /\ \E pc \in {"done", "sleep"} :
       /\ LoopIteration(prob_search_loop_task.scout_id, pc)
       /\ prob_search_loop_task' =
            [prob_search_loop_task EXCEPT !.pc = pc]
  /\ UNCHANGED <<fleet, reported, detached_tasks, tasked_from, last_mob,
                 media_vars, drone_vars>>

\* the event loop runs a task whose handle was overwritten: CancelledError
\* is raised where a cancelled task is suspended (or before its first
\* statement) and the task ends in its `except asyncio.CancelledError`; a
\* task that was not cancelled goes on with its loop
detached_loop(t) ==
  /\ t \in detached_tasks
  /\ IF t.cancelled
     THEN /\ detached_tasks' = detached_tasks \ {t}
          /\ UNCHANGED <<goto_published, commands, grid_vars>>
     ELSE \E pc \in {"done", "sleep"} :
            /\ LoopIteration(t.scout_id, pc)
            /\ detached_tasks' =
                 (detached_tasks \ {t})
                 \cup (IF pc = "done" THEN {}
                       ELSE {[t EXCEPT !.pc = pc]})
  /\ UNCHANGED <<fleet, reported, prob_search_loop_task, tasked_from,
                 last_mob, media_vars, drone_vars>>

\* MediaServer.start_stream: asyncio.create_task(_process_stream(d, url))
\* unless the drone has an entry
StartStream(d) ==
  IF active_streams[d] # 0
  THEN UNCHANGED <<active_streams, stream_tasks, nstreams>>
  ELSE /\ nstreams < MaxStreams
       /\ nstreams' = nstreams + 1
       /\ stream_tasks' =
            stream_tasks
            \cup {[drone |-> d, n |-> nstreams + 1, cancelled |-> FALSE]}
       /\ active_streams' = [active_streams EXCEPT ![d] = nstreams + 1]

\* trigger_overwatch_mode (GCS frame TRIGGER_OVERWATCH_MODE): the utility
\* drone, or else the scout, if the roster has it IDLE or PATROLLING, is
\* sent START_VIDEO_STREAM and START_OVERWATCH on drone/command/<id>, and
\* the media server starts to pull its stream; with no drone ERROR is
\* broadcast to the GCS
trigger_overwatch_mode ==
  /\ LET utility == FindDroneByRole("utility")
         scout == FindDroneByRole("scout")
         Task(d) ==
           /\ commands' = commands \cup {Cmd(d, "START_VIDEO_STREAM"),
                                         Cmd(d, "START_OVERWATCH")}
           /\ StartStream(d)
           /\ overwatch_tasking' =
                [overwatch_tasking EXCEPT ![d] = "tasked"]
     IN IF fleet[utility] \in {"IDLE", "PATROLLING"} THEN Task(utility)
        ELSE IF fleet[scout] \in {"IDLE", "PATROLLING"} THEN Task(scout)
        ELSE UNCHANGED <<commands, media_vars>>
  /\ UNCHANGED <<fleet, reported, prob_search_loop_task, detached_tasks,
                 tasked_from, goto_published, last_mob, grid_vars,
                 drone_vars>>

\* _process_stream of a cancelled task: CancelledError is raised at its
\* await, and its `finally` deletes the entry of its drone, whichever task
\* the entry refers to
process_stream_cancelled(t) ==
  /\ t \in stream_tasks
  /\ t.cancelled
  /\ stream_tasks' = stream_tasks \ {t}
  /\ active_streams' = [active_streams EXCEPT ![t.drone] = 0]
  /\ UNCHANGED <<nstreams, overwatch_tasking, fleet, reported, loop_vars,
                 grid_vars, drone_vars>>

\* the phases reported to a Coordinator that tasks overwatch
OverwatchStates == {"IDLE", "PREFLIGHT", "OVERWATCH"}

\* the Coordinator and its media server
MediaNext ==
  \/ \E d \in Drones : handle_connect(d)
  \/ \E d \in Drones, st \in OverwatchStates : handle_state(d, st)
  \/ trigger_overwatch_mode
  \/ \E t \in stream_tasks : process_stream_cancelled(t)

\* the Coordinator alone: the agents are the source of its inputs
CoordSpecInit ==
  /\ agents = {}
  /\ AgentInit
  /\ inbox = [d \in Drones |-> <<>>]
  /\ injected = 0
  /\ manual_count = 0
  /\ failures = 0
  /\ CoordInit
  /\ BusInit
  /\ GossipInit
  /\ GridInit(Origin)

CoordNext ==
  \/ \E d \in Drones : handle_connect(d)
  \/ \E d \in Drones, st \in ReportedStates : handle_state(d, st)
  \/ \E d \in Drones, pos \in ReportedPoints : handle_telemetry(d, pos)
  \/ \E d \in Drones, pos \in ReportedPoints,
        ty \in {"TARGET_DELIVERY_REQUEST", "AI_DETECTION"} :
       handle_event(d, ty, pos)
  \/ evolve_map_loop
  \/ trigger_mob_event
  \/ probabilistic_search_loop
  \/ \E t \in detached_tasks : detached_loop(t)

\* the event loop runs the search loop task once it is created and when its
\* sleep ends
CoordSpec ==
  /\ CoordSpecInit
  /\ [][CoordNext]_vars
  /\ WF_vars(probabilistic_search_loop)
  /\ WF_vars(\E t \in detached_tasks : detached_loop(t))

\* the event loop runs a cancelled stream task
MediaSpec ==
  /\ CoordSpecInit
  /\ [][MediaNext]_vars
  /\ WF_vars(\E t \in stream_tasks : process_stream_cancelled(t))

(* ---------------- the hub's bus client and its relay ----------------- *)
\* the rest of the system, which the hub's client and relay leave alone
fleet_vars == <<agent_vars, env_vars, failures, relayed, hist_vars,
                grid_vars, coord_vars, gossip_vars>>

\* MqttClient._on_disconnect: the connection is lost.  The client was
\* created with the defaults of mqtt.Client (a clean session), so the
\* broker drops its subscriptions with the connection.
on_disconnect ==
  /\ is_connected
  /\ churn < MaxChurn
  /\ churn' = churn + 1
  /\ is_connected' = FALSE
  /\ broker_subs' = {}
  /\ UNCHANGED <<subscribed, incoming_messages, relay_pc, handled, uplinked,
                 bus_count, fleet_vars>>

\* MqttClient._on_connect with reason_code 0, after the network loop of the
\* client reconnected: the flag is set and nothing is subscribed
on_connect ==
  /\ ~is_connected
  /\ is_connected' = TRUE
  /\ UNCHANGED <<broker_subs, subscribed, incoming_messages, relay_pc,
                 handled, uplinked, churn, bus_count, fleet_vars>>

\* MqttClient.subscribe as called by SatelliteRelay.run for its next topic
\* (relay_pc is the index of that topic; past the list the relay listens):
\* without a connection it returns and the filter is not kept
relay_subscribe ==
  /\ relay_pc \in DOMAIN uplink_topics
  /\ relay_pc' = relay_pc + 1
  /\ IF is_connected
     THEN /\ broker_subs' = broker_subs \cup {uplink_topics[relay_pc]}
          /\ subscribed' = subscribed \cup {uplink_topics[relay_pc]}
     ELSE UNCHANGED <<broker_subs, subscribed>>
  /\ UNCHANGED <<is_connected, incoming_messages, handled, uplinked, churn,
                 bus_count, fleet_vars>>

\* another client publishes on the bus
bus_publish(tp, pl) ==
  /\ bus_count < MaxBus
  /\ bus_count' = bus_count + 1
  /\ incoming_messages' =
       on_message(incoming_messages, [topic |-> tp, payload |-> pl])
  /\ UNCHANGED <<is_connected, broker_subs, subscribed, relay_pc, handled,
                 uplinked, churn, fleet_vars>>

\* publish that hands the message to the network client whatever
\* is_connected says: the client sends it when it can
MqttPublish_queued(q, tp, v) ==
  LET m == [topic |-> tp, payload |-> json_dumps(v)]
  IN /\ uplinked' = Append(uplinked, m)
     /\ incoming_messages' = on_message(q, m)

\* MqttClient.publish of the value v on topic tp, with the queue q left to
\* the listener: without a connection it prints and returns; otherwise
\* the encoded message is sent, and the broker routes it like any other
MqttPublish(q, tp, v) ==
  LET m == [topic |-> tp, payload |-> json_dumps(v)]
  IN IF is_connected
     THEN /\ uplinked' = Append(uplinked, m)
          /\ incoming_messages' = on_message(q, m)
     ELSE /\ uplinked' = uplinked
          /\ incoming_messages' = q

\* SatelliteRelay.run: listen() yields the next message, and the relay
\* republishes it under the uplink prefix if its topic is uplinkable
relay_handle ==
  /\ relay_pc = Len(uplink_topics) + 1
  /\ incoming_messages # <<>>
  /\ LET m == Head(incoming_messages)
     IN /\ handled' = Append(handled,
                             [topic |-> m.topic, payload |-> m.payload,
                              connected |-> is_connected])
        /\ IF is_uplinkable(m.topic)
           THEN MqttPublish(Tail(incoming_messages), UplinkTopic(m.topic),
                            m.payload)
           ELSE /\ incoming_messages' = Tail(incoming_messages)
                /\ uplinked' = uplinked
  /\ UNCHANGED <<is_connected, broker_subs, subscribed, relay_pc, churn,
                 bus_count, fleet_vars>>

BusNext ==
  \/ on_disconnect
  \/ on_connect
  \/ relay_subscribe
  \/ \E tp \in {<<"mission", "/", "start">>,
                 <<"mission", "/", "start", "ed">>,
                 <<"fleet", "/", "event", "/", "target_found">>,
                 <<"fleet", "/", "event", "s", "/", "log">>,
                 <<"fleet", "/", "state", "/", "scout_1">>,
                 <<"fleet", "/", "telemetry", "/", "scout_1">>,
                 UplinkTopic(<<"mission", "/", "start">>)},
          pl \in {json_dumps("p1"), [value |-> "p1", form |-> "spaced"],
                  json_dumps("p2"), Malformed} :
       bus_publish(tp, pl)
  \/ relay_handle

\* the hub: its bus client and the satellite relay
BusSpec == CoordSpecInit /\ [][BusNext]_vars

(* ------------- two scouts sharing their observations ----------------- *)
rest_vars == <<agent_vars, env_vars, failures, relayed, hist_vars, grid_vars,
               coord_vars, bus_vars>>

\* _p2p_event_listener takes a mission/start and awaits the start trigger:
\* MOB_EMERGENCY leads the scout to _run_search_step and GENERAL_EMERGENCY
\* to _run_overwatch, both `after` callbacks awaited inside the trigger,
\* on the listener task
start_behaviour(s, b) ==
  /\ listener_at[s] = "listen"
  /\ listener_at' = [listener_at EXCEPT ![s] = b]
  /\ UNCHANGED <<map_inbox, applied, shared, rest_vars>>

\* _run_search_step, steps 4 and 5 of an iteration: update_map on the
\* scout's own grid, then the observation is published on
\* fleet/map/update, which every scout subscribed to, the publisher too
share_observation(s) ==
  /\ listener_at[s] = "search"
  /\ Len(shared) < MaxObs
  /\ applied' = [applied EXCEPT ![s][Len(shared) + 1] = @ + 1]
  /\ shared' = Append(shared, s)
  /\ map_inbox' = [r \in Scouts |->
                     Append(map_inbox[r],
                            [drone_id |-> s, n |-> Len(shared) + 1])]
  /\ UNCHANGED <<listener_at, rest_vars>>

\* the search ends (search_complete_negative or target_sighted) and the
\* chain of callbacks it fires returns: the listener goes back to
\* listen().  The loop of _run_overwatch has no such end.
behaviour_returns(s) ==
  /\ listener_at[s] = "search"
  /\ listener_at' = [listener_at EXCEPT ![s] = "listen"]
  /\ UNCHANGED <<map_inbox, applied, shared, rest_vars>>

\* the health monitor fires a transition (takeover, emergency): the
\* callbacks running on the listener task are cancelled and the listener
\* goes back to listen()
health_preempts(s) ==
  /\ listener_at[s] # "listen"
  /\ listener_at' = [listener_at EXCEPT ![s] = "listen"]
  /\ UNCHANGED <<map_inbox, applied, shared, rest_vars>>

\* _p2p_event_listener, topic fleet/map/update: update_map with the peer's
\* observation unless the message is the scout's own
on_map_update(s) ==
  /\ listener_at[s] = "listen"
  /\ map_inbox[s] # <<>>
  /\ map_inbox' = [map_inbox EXCEPT ![s] = Tail(@)]
  /\ applied' = IF Head(map_inbox[s]).drone_id # s
                THEN [applied EXCEPT ![s][Head(map_inbox[s]).n] = @ + 1]
                ELSE applied
  /\ UNCHANGED <<listener_at, shared, rest_vars>>

GossipNext ==
  \/ \E s \in Scouts, b \in {"search", "overwatch"} : start_behaviour(s, b)
  \/ \E s \in Scouts : share_observation(s)
  \/ \E s \in Scouts : behaviour_returns(s)
  \/ \E s \in Scouts : health_preempts(s)
  \/ \E s \in Scouts : on_map_update(s)

\* the event loop runs a listener that has a message to take, and a search
\* ends; nothing makes the operator or the battery end an overwatch
GossipSpec ==
  /\ CoordSpecInit
  /\ [][GossipNext]_vars
  /\ WF_vars(\E s \in Scouts : on_map_update(s))
  /\ WF_vars(\E s \in Scouts : behaviour_returns(s))

(* ------------------------------ claims -------------------------------- *)
\* C1: once the phase of a drone is EMERGENCY, the only trigger that changes
\* it is reset_from_emergency; any other trigger leaves the phase EMERGENCY.
C1_OnlyResetLeavesEmergency ==
  [][\A d \in Drones :
       (phase[d] = "EMERGENCY" /\ phase'[d] # "EMERGENCY") =>
         /\ translog'[d] # <<>>
         /\ translog'[d][Len(translog'[d])].trigger = "reset_from_emergency"
    ]_vars

\* C2: a drone of role payload is never in ROLE_SEARCH_PRIMARY,
\* ROLE_SEARCH_ASSIST or ROLE_UTILITY_TASK, whatever messages it receives.
C2_PayloadNeverSearches ==
  \A d \in agents :
    Role(d) = "payload" =>
      phase[d] \notin {"ROLE_SEARCH_PRIMARY", "ROLE_SEARCH_ASSIST",
                       "ROLE_UTILITY_TASK"}

\* a payload drone has consumed every message of the run and holds a role
\* phase in the air
C2_Witness ==
  \E d \in agents :
    /\ Role(d) = "payload"
    /\ phase[d] \in {"ROLE_EMERGENCY_STANDBY", "DELIVERING"}
    /\ injected = MaxMsgs
    /\ inbox[d] = <<>>

\* C3: no flight command (takeoff, go_to, hover/hold, land, return_to_home)
\* is issued to the controller of a drone whose phase is
\* LOCAL_OPERATOR_CONTROL.
C3_NoCommandUnderLocalControl ==
  \A d \in agents : lastCmd[d].phase # "LOCAL_OPERATOR_CONTROL"

\* C4: fleet/event/target_found is published only after an
\* OPERATOR_CONFIRM_TARGET for the drone itself was received in
\* TARGET_PENDING_CONFIRMATION, and a confirmation addressed to another drone
\* or received in another phase changes neither the phase nor publishes.
C4_HandoffOnlyAfterOwnConfirm ==
  /\ [](\A d \in agents : tf_published[d] <= confirms[d])
  /\ [][\A d \in agents :
          ( /\ task[d]["L"].pc = "recv"
            /\ inbox[d] # <<>>
            /\ inbox'[d] = Tail(inbox[d])
            /\ Head(inbox[d]).topic = "fleet/event/confirmation"
            /\ \/ Head(inbox[d]).drone_id # d
               \/ phase[d] # "TARGET_PENDING_CONFIRMATION" )
          => /\ phase'[d] = phase[d]
             /\ tf_published'[d] = tf_published[d]
       ]_vars

\* a searching drone was confirmed by the operator and has published
\* target_found
C4_Witness ==
  \E d \in agents : tf_published[d] = 1 /\ confirms[d] = 1

\* C5: the same target_found message delivered twice to a payload agent makes
\* the drone enter DELIVERING at most once for it.
C5_AtMostOneDelivery ==
  \A d \in agents : \A m \in 1..MaxTargets : deliveries[d][m] <= 1

\* C6: a target_found delivered to a healthy payload agent in airborne
\* standby leads to DELIVERING with the position the message carries.
C6_StandbyLeadsToDelivering ==
  \A d \in Drones : \A p \in Positions :
    ( /\ d \in agents /\ Role(d) = "payload"
      /\ phase[d] = "ROLE_EMERGENCY_STANDBY"
      /\ is_healthy(d)
      /\ inbox[d] # <<>>
      /\ Head(inbox[d]).topic = "fleet/event/target_found"
      /\ Head(inbox[d]).position = p )
    ~> (phase[d] = "DELIVERING" /\ target_position[d] = p)

\* C7: the phases published on fleet/state/<id> come in the order in which
\* the transitions were fired.
C7_PublishedInTransitionOrder ==
  \A d \in agents :
    /\ Len(statelog[d]) <= Len(translog[d])
    /\ \A i \in 1..Len(statelog[d]) : statelog[d][i] = translog[d][i].dest

\* C8: fleet/state/<id> messages and transitions correspond one to one: when
\* no trigger of the drone is in progress, every phase was published as often
\* as it was entered.
C8_OneMessagePerTransition ==
  \A d \in agents :
    (\A t \in Tasks : ~InTrigger(task[d][t])) =>
      \A ph \in MissionPhase :
        Cardinality({i \in 1..Len(statelog[d]) : statelog[d][i] = ph})
          = Cardinality({i \in 1..Len(translog[d]) :
                           translog[d][i].dest = ph})

\* C9: a trigger that no transition accepts is a no-op: the phase does not
\* change, nothing is published on fleet/state/<id> and no other transition
\* (no trigger_emergency) results, in the listener and inside a callback.
C9_RejectedTriggerIsNoOp ==
  [][\A d \in Drones :
       rejections'[d] # rejections[d] =>
         /\ phase'[d] = phase[d]
         /\ statelog'[d] = statelog[d]
         /\ translog'[d] = translog[d]
    ]_vars

\* the listener fired a trigger in a phase from which it is not declared
C9_Witness ==
  \E d \in agents : rejections[d] > 0 /\ phase[d] # "IDLE"

\* C10: when the operator's CONFIRM_TARGET and then REJECT_TARGET for the
\* pending sighting of a drone have been relayed and the agent has nothing
\* left to handle, the drone has left TARGET_PENDING_CONFIRMATION through
\* TARGET_CONFIRMED and has published target_found.
C10_RejectAfterConfirm ==
  \A d \in agents :
    ( /\ relayed[d] = <<"OPERATOR_CONFIRM_TARGET", "OPERATOR_REJECT_TARGET">>
      /\ inbox[d] = <<>>
      /\ \A t \in Tasks : task[d][t] = IdleTask(t) )
    => /\ phase[d] # "TARGET_PENDING_CONFIRMATION"
       /\ tf_published[d] >= 1

\* C12: an OPERATOR_REJECT_TARGET for a drone in TARGET_PENDING_CONFIRMATION
\* puts it back in the search phase it held before target_sighted
\* (ROLE_SEARCH_PRIMARY or ROLE_SEARCH_ASSIST), nothing that follows the
\* rejection publishes fleet/event/target_found, and no confirmation message
\* changes the phase of a payload drone.
C12_RejectReturnsToSearch ==
  [][\A d \in agents :
       /\ ( /\ task[d]["L"].pc = "recv"
            /\ inbox[d] # <<>>
            /\ inbox'[d] = Tail(inbox[d])
            /\ Head(inbox[d]).topic = "fleet/event/confirmation"
            /\ Head(inbox[d]).type = "OPERATOR_REJECT_TARGET"
            /\ Head(inbox[d]).drone_id = d
            /\ phase[d] = "TARGET_PENDING_CONFIRMATION" )
          => /\ translog[d] # <<>>
             /\ translog[d][Len(translog[d])].trigger = "target_sighted"
             /\ phase'[d] = translog[d][Len(translog[d])].source
             /\ phase'[d] \in {"ROLE_SEARCH_PRIMARY", "ROLE_SEARCH_ASSIST"}
             /\ tf_published'[d] = tf_published[d]
       /\ ( /\ translog[d] # <<>>
            /\ translog[d][Len(translog[d])].trigger = "reject_target" )
          => tf_published'[d] = tf_published[d]
       /\ ( /\ Role(d) = "payload"
            /\ inbox[d] # <<>>
            /\ inbox'[d] = Tail(inbox[d])
            /\ Head(inbox[d]).topic = "fleet/event/confirmation" )
          => phase'[d] = phase[d]
    ]_vars

\* a rejected drone is back in its search phase and its rejection handler
\* has returned
C12_Witness ==
  \E d \in agents :
    /\ translog[d] # <<>>
    /\ translog[d][Len(translog[d])].trigger = "reject_target"
    /\ phase[d] \in {"ROLE_SEARCH_PRIMARY", "ROLE_SEARCH_ASSIST"}
    /\ \A t \in Tasks : task[d][t] = IdleTask(t)

\* C11: whenever some drone is in DELIVERING or TARGET_CONFIRMED, at most one
\* drone of the fleet is in TARGET_CONFIRMED; the scout and the utility drone
\* of one MOB mission are never both in TARGET_CONFIRMED.
C11_OneConfirmedTarget ==
  (\E d \in agents : phase[d] \in {"DELIVERING", "TARGET_CONFIRMED"})
  => Cardinality({d \in agents : phase[d] = "TARGET_CONFIRMED"}) <= 1

\* C13: a drone that reject_target returned to ROLE_SEARCH_PRIMARY or
\* ROLE_SEARCH_ASSIST resumes searching, so that it leaves the search phase
\* again (by target_sighted, by search_complete_negative, or by an emergency
\* or a takeover).
C13_ResumesAfterRejection ==
  \A d \in Drones :
    ( /\ d \in agents
      /\ translog[d] # <<>>
      /\ translog[d][Len(translog[d])].trigger = "reject_target"
      /\ phase[d] \in {"ROLE_SEARCH_PRIMARY", "ROLE_SEARCH_ASSIST"} )
    ~> (phase[d] \notin {"ROLE_SEARCH_PRIMARY", "ROLE_SEARCH_ASSIST"})

\* C14: a drone that enters EMERGENCY is commanded to land and then reaches
\* IDLE by reset_from_emergency, whatever health ticks and bus messages
\* arrive in the meantime.
C14_EmergencyLandsAndResets ==
  \A d \in Drones :
    (d \in agents /\ phase[d] = "EMERGENCY")
    ~> ( /\ phase[d] = "IDLE"
         /\ translog[d] # <<>>
         /\ translog[d][Len(translog[d])].trigger = "reset_from_emergency"
         /\ lastCmd[d].cmd = "land" )

\* C15: in a MOB mission without failures in which the operator confirms the
\* sighting of the scout, the scout and the payload drone end in COMPLETED
\* and stay there, the payload drone having delivered to the position the
\* scout confirmed.
C15_MobMissionCompletes ==
  (phase["scout_1"] = "TARGET_CONFIRMED")
  ~> [](/\ phase["scout_1"] = "COMPLETED"
        /\ phase["payload_1"] = "COMPLETED"
        /\ deliveries["payload_1"][0] >= 1
        /\ target_position["payload_1"] = target["scout_1"])

\* the position lies in the search area around centre a: within half_area
\* of it on both axes
InsideArea(p, a) ==
  /\ 2 * (p.x - a.x) \in (-search_area_size_m)..search_area_size_m
  /\ 2 * (p.y - a.y) \in (-search_area_size_m)..search_area_size_m

C17_LockedCellIsNextWaypoint ==
  ( /\ Len(calls) = 2
    /\ calls[1].op = "confirm_target_at"
    /\ calls[2].op = "get_next_search_waypoint"
    /\ InsideArea(calls[1].pos, area) )
  => /\ (calls[2].waypoint.x - Fine * calls[1].pos.x)
          \in (-search_area_size_m)..search_area_size_m
     /\ (calls[2].waypoint.y - Fine * calls[1].pos.y)
          \in (-search_area_size_m)..search_area_size_m

\* a position off the diagonal of an area that is not centred at the origin
\* was confirmed and the next waypoint was asked for
C17_Witness ==
  /\ Len(calls) = 2
  /\ calls[1].op = "confirm_target_at"
  /\ calls[2].op = "get_next_search_waypoint"
  /\ InsideArea(calls[1].pos, area)
  /\ area # Origin
  /\ LockCell(calls[1].pos, area)[1] # LockCell(calls[1].pos, area)[2]

\* C18: two consecutive get_next_search_waypoint() calls return different
\* waypoints, in every reachable grid state.
C18_ConsecutiveWaypointsDiffer ==
  ( /\ Len(calls) = 2
    /\ calls[1].op = "get_next_search_waypoint"
    /\ calls[2].op = "get_next_search_waypoint" )
  => calls[1].waypoint # calls[2].waypoint

\* C19: after update_map with has_detection = true the grid is the uniform
\* prior or is locked to the cell that contains the reported position.
C19_DetectionChangesGrid ==
  ( /\ calls # <<>>
    /\ calls[Len(calls)].op = "update_map"
    /\ calls[Len(calls)].has_detection )
  => \/ /\ probability_grid = Uniform
        /\ grid_scale = grid_size * grid_size
     \/ /\ probability_grid = Locked(LockCell(calls[Len(calls)].pos, area))
        /\ grid_scale = 1

\* C20: the search loop that TRIGGER_MOB_MODE started for a drone known as
\* IDLE is still running whenever that drone is later known to be in a
\* searching phase, and it then publishes a GOTO_WAYPOINT to the drone while
\* the drone is searching.
C20_SearchLoopGuidesTheDrone ==
  \A d \in Drones :
    LET Guided == /\ prob_search_loop_task.scout_id = d
                  /\ tasked_from = "IDLE"
                  /\ fleet[d] \in SearchingPhases
    IN /\ [](Guided => prob_search_loop_task.pc \in {"ready", "sleep"})
       /\ Guided ~> (goto_published[d] > 0 \/ ~Guided)

\* C23: when the Coordinator relays the operator's CONFIRM_TARGET or
\* REJECT_TARGET for drone d, one message with topic
\* fleet/event/confirmation, drone_id d and the matching type
\* (OPERATOR_CONFIRM_TARGET or OPERATOR_REJECT_TARGET) reaches the queue of
\* the agent of d, which listens on that topic.
C23_RelayReachesTheAgent ==
  [][\A d \in agents :
       relayed'[d] # relayed[d] =>
         inbox'[d] =
           Append(inbox[d],
                  Msg("fleet/event/confirmation",
                      relayed'[d][Len(relayed'[d])], d, "none", 0))
    ]_vars

\* C29: in every phase but EMERGENCY, IDLE and PREFLIGHT included, a health
\* tick that polls the vehicle in MANUAL while the phase is not
\* LOCAL_OPERATOR_CONTROL fires local_operator_takeover, so a vehicle that
\* stays in MANUAL brings its drone to LOCAL_OPERATOR_CONTROL; a tick that
\* polls another mode in LOCAL_OPERATOR_CONTROL fires local_operator_release,
\* so the drone leaves LOCAL_OPERATOR_CONTROL.
C29_TakeoverInEveryPhase ==
  \A d \in Drones :
    /\ ( /\ d \in agents
         /\ vehicle[d].state = "MANUAL"
         /\ phase[d] \notin {"EMERGENCY", "LOCAL_OPERATOR_CONTROL"} )
       ~> \/ phase[d] \in {"EMERGENCY", "LOCAL_OPERATOR_CONTROL"}
          \/ vehicle[d].state # "MANUAL"
    /\ ( /\ d \in agents
         /\ vehicle[d].state # "MANUAL"
         /\ phase[d] = "LOCAL_OPERATOR_CONTROL" )
       ~> \/ phase[d] # "LOCAL_OPERATOR_CONTROL"
          \/ vehicle[d].state = "MANUAL"

C21_LoopOnlySendsWaypoints ==
  /\ [][\A d \in Drones :
          goto_published'[d] = goto_published[d] + 1
          => /\ fleet[d] = "SEARCHING"
             /\ fleet' = fleet
             /\ commands' = commands \cup {Cmd(d, "GOTO_WAYPOINT")}
       ]_vars
  /\ [][( \/ /\ prob_search_loop_task.pc \in {"ready", "sleep"}
             /\ prob_search_loop_task' =
                  [prob_search_loop_task EXCEPT !.pc = "done"]
          \/ \E t \in detached_tasks :
               detached_tasks' = detached_tasks \ {t} )
        => /\ fleet' = fleet
           /\ commands' = commands
       ]_vars
  /\ [](\A d \in Drones : fleet[d] = reported[d])

\* a loop that published a GOTO_WAYPOINT was cancelled in its sleep and has
\* ended, and another loop that published one has stopped by itself
C21_Witness ==
  /\ Cmd("scout_1", "GOTO_WAYPOINT") \in commands
  /\ prob_search_loop_task.pc = "done"
  /\ detached_tasks = {}
  /\ ncalls = MaxCalls
  /\ fleet["scout_1"] \notin {"SEARCHING", "UNKNOWN"}

\* C22: at most one search loop is active at a time, whatever
\* TRIGGER_MOB_MODE commands and bus messages arrive: a task whose handle
\* was overwritten has been cancelled, and only the task the handle refers
\* to publishes a GOTO_WAYPOINT.
C22_OneSearchLoop ==
  /\ [](\A t \in detached_tasks : t.cancelled)
  /\ [][\A d \in Drones :
          goto_published'[d] = goto_published[d] + 1
          => /\ prob_search_loop_task.scout_id = d
             /\ prob_search_loop_task.pc \in {"ready", "sleep"}
             /\ prob_search_loop_task' =
                  [prob_search_loop_task EXCEPT !.pc = "sleep"]
             /\ detached_tasks' = detached_tasks
       ]_vars

\* a second TRIGGER_MOB_MODE replaced a loop that sleeps after a
\* GOTO_WAYPOINT: the old task is cancelled, the new one is ready to run
C22_Witness ==
  /\ prob_search_loop_task.pc = "ready"
  /\ \E t \in detached_tasks : t.pc = "sleep" /\ t.cancelled
  /\ \E d \in Drones : Cmd(d, "GOTO_WAYPOINT") \in commands

\* C24: one TRIGGER_MOB_MODE tasks exactly one search drone, the scout when
\* the roster has it IDLE or PATROLLING, otherwise the utility drone when
\* the roster has it IDLE or PATROLLING: START_MISSION is published to that
\* drone and the search loop is started for it.  With neither available no
\* START_MISSION is published, no loop is started and ERROR is broadcast.
\* When a search drone was tasked and the payload drone is not IDLE in the
\* roster, WARNING is broadcast.
C24_MobTasksOneSearchDrone ==
  [][ ( /\ ncalls' = ncalls + 1
        /\ calls'[Len(calls')].op = "initialize_map" )
      => LET avail(d) == fleet[d] \in {"IDLE", "PATROLLING"}
             tasked == IF avail("scout_1") THEN {"scout_1"}
                       ELSE IF avail("utility_1") THEN {"utility_1"}
                       ELSE {}
         IN /\ last_mob'.started = tasked
            /\ commands' =
                 commands \cup {Cmd(d, "START_MISSION") : d \in tasked}
            /\ \A d \in tasked :
                 prob_search_loop_task' = [scout_id |-> d, pc |-> "ready"]
            /\ tasked = {} =>
                 /\ prob_search_loop_task' = prob_search_loop_task
                 /\ detached_tasks' = detached_tasks
                 /\ last_mob'.broadcast = {"ERROR"}
            /\ (tasked # {} /\ fleet["payload_1"] # "IDLE")
                 => "WARNING" \in last_mob'.broadcast
            /\ tasked # {} => "ERROR" \notin last_mob'.broadcast
    ]_vars

\* the scout was busy and the payload drone unknown: the utility drone was
\* tasked and WARNING was broadcast
C24_Witness ==
  /\ last_mob = [started |-> {"utility_1"}, broadcast |-> {"WARNING"}]
  /\ prob_search_loop_task = [scout_id |-> "utility_1", pc |-> "ready"]
  /\ fleet["scout_1"] = "SEARCHING"

\* C28: a fleet/state message that moves the recorded phase of a drone from
\* OVERWATCH to another phase leaves no stream task of that drone running
\* (each is cancelled), and once a drone that was tasked with overwatch has
\* reported IDLE again, whether or not it ever reported OVERWATCH, no stream
\* of that drone is active.
C28_StreamStopsWithOverwatch ==
  /\ [][\A d \in Drones :
          (fleet[d] = "OVERWATCH" /\ fleet'[d] # "OVERWATCH")
          => \A t \in stream_tasks' : t.drone = d => t.cancelled
       ]_vars
  /\ [](\A d \in Drones :
          (fleet[d] = "IDLE" /\ overwatch_tasking[d] = "ended")
          => /\ \A t \in stream_tasks : t.drone = d => t.cancelled
             /\ active_streams[d] = 0)


\* C25: whenever the bus client is connected, every topic it subscribed to
\* is subscribed at the broker, also after a disconnect and a reconnect, so
\* that messages published on it are delivered to listen().
C25_SubscribedAfterReconnect ==
  is_connected => subscribed \subseteq broker_subs

\* C26: a publish made while the bus client is disconnected sends nothing,
\* then or later: no step that starts disconnected (a publish, the
\* reconnect) sends a message, and no more messages were sent than the
\* relay published with a connection.
C26_DisconnectedPublishIsDropped ==
  /\ [][~is_connected => uplinked' = uplinked]_vars
  /\ [](Len(uplinked)
          <= Cardinality({i \in DOMAIN handled : handled[i].connected}))

\* the relay published a message without a connection, the client has
\* reconnected, and the message was not sent
C26_Witness ==
  /\ is_connected
  /\ \E i \in DOMAIN handled : ~handled[i].connected
  /\ Len(uplinked) < Len(handled)

\* C27 as stated: the messages the relay has published are exactly, one
\* for one and in order, the messages it received on mission/start,
\* fleet/event/<x> or fleet/state/<x>, each on global_hq/uplink/<topic>
\* with the same payload, and nothing else.
C27_UplinksEveryMessage ==
  LET OnUplinkTopic(h) ==
        \E i \in DOMAIN uplink_topics :
          FilterMatches(uplink_topics[i], h.topic)
      received == SelectSeq(handled, OnUplinkTopic)
  IN uplinked =
       [i \in 1..Len(received) |->
          [topic |-> <<"global_hq", "/", "uplink", "/">> \o received[i].topic,
           payload |-> [value |-> received[i].payload, form |-> "dumps"]]]

\* C27 as amended: the same of the messages the relay received while its
\* bus client was connected; a message received without a connection is
\* not uplinked.
C27_UplinksWhileConnected ==
  LET OnUplinkTopic(h) ==
        /\ h.connected
        /\ \E i \in DOMAIN uplink_topics :
             FilterMatches(uplink_topics[i], h.topic)
      received == SelectSeq(handled, OnUplinkTopic)
  IN uplinked =
       [i \in 1..Len(received) |->
          [topic |-> <<"global_hq", "/", "uplink", "/">> \o received[i].topic,
           payload |-> [value |-> received[i].payload, form |-> "dumps"]]]

\* the relay has received two messages on different uplink topics and
\* uplinked both, and none of its uplinks came back to it
C27_Witness ==
  /\ Len(uplinked) = 2
  /\ Len(handled) = 2
  /\ uplinked[1].topic = UplinkTopic(handled[1].topic)
  /\ json_loads(uplinked[1].payload) = handled[1].payload
  /\ handled[1].topic # handled[2].topic


\* C31: the health monitor never fires trigger_emergency for a drone that
\* is in LOCAL_OPERATOR_CONTROL: no step of the health check that follows a
\* takeover or a release takes the drone from LOCAL_OPERATOR_CONTROL to
\* EMERGENCY.
C31_NoEmergencyUnderLocalControl ==
  [][\A d \in Drones :
       (/\ task[d]["H"].pc = "h_check"
        /\ task'[d]["H"].pc # "h_check"
        /\ phase[d] = "LOCAL_OPERATOR_CONTROL")
       => phase'[d] # "EMERGENCY"]_vars


\* C32: the patrol of a utility drone runs apart from its bus listener:
\* whenever a mission/start MOB_EMERGENCY is next in the inbox of a utility
\* drone in ROLE_UTILITY_TASK, the listener is not the task that is busy
\* running the patrol, so it takes the event without waiting for the
\* patrol.
C32_ListenerFreeDuringPatrol ==
  \A d \in agents :
    (/\ Role(d) = "utility"
     /\ phase[d] = "ROLE_UTILITY_TASK"
     /\ inbox[d] # <<>>
     /\ Head(inbox[d]).topic = "mission/start"
     /\ Head(inbox[d]).type = "MOB_EMERGENCY")
    => task[d]["L"].pc \notin {"run_patrol", "patrol_scan_wait",
                               "patrol_sleep"}


\* C33: only a scout is ever in ROLE_EMERGENCY_EYES, and a drone in TAKEOFF
\* has at most one takeoff_success transition whose conditions hold for
\* its role and mission type.
C33_EyesOnlyForScout ==
  \A d \in agents :
    /\ phase[d] = "ROLE_EMERGENCY_EYES" => Role(d) = "scout"
    /\ phase[d] = "TAKEOFF" =>
         Cardinality(Passing("takeoff_success", "TAKEOFF", Role(d),
                             current_mission_type[d])) <= 1


\* C34: a mission/start that the listener takes from the inbox without a
\* transition, because the role refuses it (the handler fires no trigger)
\* or because the phase has no transition for the trigger it fires, leaves
\* the phase, current_mission_type and target_position as they were.
C34_RefusedStartChangesNothing ==
  [][\A d \in Drones :
       (/\ inbox[d] # <<>>
        /\ Head(inbox[d]).topic = "mission/start"
        /\ inbox'[d] = Tail(inbox[d])
        /\ \/ Handle(d, Head(inbox[d])).trg = "none"
           \/ /\ Handle(d, Head(inbox[d])).trg # "error"
              /\ Declared(Handle(d, Head(inbox[d])).trg, phase[d]) = {})
       => /\ phase'[d] = phase[d]
          /\ current_mission_type'[d] = current_mission_type[d]
          /\ target_position'[d] = target_position[d]]_vars


\* C35: a no-detection update_map(pos, h) multiplies by miss_probability
\* exactly the cells whose world-space centre (the centre relative to the
\* area plus the area centre, as get_next_search_waypoint reports it) is
\* closer to pos than r(h) = r_max * h / (h + h_ref), then normalizes: the
\* grid after the call is the grid before it scaled on that set and
\* divided by its sum.  (Distances are in 1/Fine m and compared squared:
\* d^2 < (num/den)^2 is d^2 <= (num^2 - 1) div den^2.)
C35_UpdateScalesCellsInWorldRadius ==
  [][(/\ ncalls' = ncalls + 1
      /\ calls'[Len(calls')].op = "update_map"
      /\ ~calls'[Len(calls')].has_detection)
     => LET pos == calls'[Len(calls')].pos
            f == GCD(pos.z, pos.z + h_ref)
            num == Fine * r_max * (pos.z \div f)
            den == (pos.z + h_ref) \div f
            S == {c \in Cells :
                    LET dx == cell_centers_x(c[1], c[2]) + Fine * area.x
                                - Fine * pos.x
                        dy == cell_centers_y(c[1], c[2]) + Fine * area.y
                                - Fine * pos.y
                    IN (dx * dx + dy * dy) <= (num * num - 1) \div (den * den)}
            u == Scaled(probability_grid, grid_scale, S,
                        miss_probability_pct)
        IN /\ Sum(u.grid) > 0
           /\ probability_grid' = Reduced(u.grid, Sum(u.grid)).grid
           /\ grid_scale' = Reduced(u.grid, Sum(u.grid)).scale]_vars


\* C36: evolve_map(dt) rolls the grid cyclically by drift * dt / cell_size
\* cells rounded to the nearest integer, along x (columns) and y (rows):
\* every cell of the grid after the call holds what the cell that many
\* places before it held, and the scale is unchanged.
C36_EvolveRollsByRoundedShift ==
  [][(/\ ncalls' = ncalls + 1
      /\ calls'[Len(calls')].op = "evolve_map")
     => LET dt == calls'[Len(calls')].dt
            dx == (2 * drift_x_cm_s * dt * grid_size
                     + 100 * search_area_size_m)
                    \div (200 * search_area_size_m)
            dy == (2 * drift_y_cm_s * dt * grid_size
                     + 100 * search_area_size_m)
                    \div (200 * search_area_size_m)
        IN /\ grid_scale' = grid_scale
           /\ \A c \in Cells :
                probability_grid'[c] =
                  probability_grid[<<(c[1] - dy) % grid_size,
                                     (c[2] - dx) % grid_size>>]]_vars


\* C37: every observation shared on fleet/map/update is applied exactly
\* once to the grid of every scout: never more than once, by its
\* originator as soon as it is shared, and in the end by every other
\* scout.
C37_SharedObservationAppliedOnce ==
  /\ [](\A s \in Scouts : \A k \in 1..MaxObs : applied[s][k] <= 1)
  /\ [](\A k \in 1..Len(shared) : applied[shared[k]][k] = 1)
  /\ \A s \in Scouts : \A k \in 1..MaxObs :
       (Len(shared) >= k) ~> (applied[s][k] = 1)


\* C38: every stream task that runs (was not cancelled) is the one recorded
\* in active_streams under its drone, so that stop_stream cancels it, and
\* no drone has two of them.
C38_RunningStreamIsRegistered ==
  \A t \in stream_tasks :
    ~t.cancelled =>
      /\ active_streams[t.drone] = t.n
      /\ \A u \in stream_tasks :
           (~u.cancelled /\ u.drone = t.drone) => u = t


\* C39: when no trigger of a drone is in progress, the phase the Coordinator
\* records for it once it has handled every fleet/state/<id> message the
\* drone published (_handle_state stores the state of each message, so the
\* record is the state of the last one) is the drone's phase.
C39_RosterMatchesPhase ==
  \A d \in agents :
    ( /\ \A t \in Tasks : ~InTrigger(task[d][t])
      /\ statelog[d] # <<>> )
    => statelog[d][Len(statelog[d])] = phase[d]

=============================================================================
